---- MODULE Spec2Model ----
(***************************************************************************)
(* Spoti-find: void spot analysis of cage floor papers.                    *)
(*                                                                         *)
(* The model follows src/src/vsa.py (VsaProcessor), src/src/vsa_gui.py     *)
(* (MainWin), src/spoti_find/src/area_volume_map.py (AreaVolumeMap) and    *)
(* src/spoti_find/src/polygon_tools.py.                                    *)
(*                                                                         *)
(* Conventions                                                             *)
(*   - a pixel is <<x, y>>, x the column and y the row (y grows downward); *)
(*   - a raster (img, img_extended, dist_map) is a function Pixels -> Nat; *)
(*   - a binary mask (paper_mask, spot_mask, roi_mask) is the set of its   *)
(*     non-zero pixels: every consumer in the code (findContours,          *)
(*     np.any, > 0, == 0, bitwise_or with 255) reads a mask only as        *)
(*     zero / non-zero;                                                    *)
(*   - a polygon is a sequence of points, a contour likewise               *)
(*     (contour_to_polygon / polygon_to_contour only rewrap the points);   *)
(*   - a value that may be None is a sequence: <<>> is None, <<v>> is v;   *)
(*   - a float is an exact rational [n |-> Int, d |-> Nat \ {0}] in lowest *)
(*     terms: floating-point rounding is not modelled.                     *)
(***************************************************************************)
EXTENDS Integers, Sequences, FiniteSets, TLC

(***************************************************************************)
(* Bounds of the model.                                                    *)
(***************************************************************************)
\* image width and height in pixels (every image file of the model has them)
ImgW == 4
ImgH == 2
\* side of the square tiles of segment_spots. The constructor sets
\* win_size = 100 (src/src/vsa.py:32); the model scales it down with the image.
WinSize == 2
\* longest list of calibration points the model builds
MaxCalPoints == 4

\* the largest 8-bit intensity, and the colour of a drawn mask pixel
MaxIntensity == 255

None == <<>>
Some(v) == <<v>>

(***************************************************************************)
(* Rationals.                                                              *)
(***************************************************************************)
Abs(i) == IF i < 0 THEN -i ELSE i

RECURSIVE Gcd(_, _)
Gcd(a, b) == IF b = 0 THEN a ELSE Gcd(b, a % b)

\* the rational n/d (d # 0) in lowest terms with a positive denominator
Rat(n, d) ==
    LET g == Gcd(Abs(n), Abs(d))
        s == IF d < 0 THEN -1 ELSE 1
    IN  [n |-> (s * n) \div g, d |-> (s * d) \div g]

RInt(i) == [n |-> i, d |-> 1]
\* the sum over the least common denominator
RAdd(a, b) ==
    LET g == Gcd(a.d, b.d)
    IN  Rat(a.n * (b.d \div g) + b.n * (a.d \div g), (a.d \div g) * b.d)
RNeg(a) == [n |-> -a.n, d |-> a.d]
RSub(a, b) == RAdd(a, RNeg(b))
\* the product, common factors cancelled before the multiplication
RMul(a, b) ==
    LET g == Gcd(Abs(a.n), b.d)
        h == Gcd(Abs(b.n), a.d)
    IN  IF a.n = 0 \/ b.n = 0 THEN RInt(0)
        ELSE Rat((a.n \div g) * (b.n \div h), (a.d \div h) * (b.d \div g))
\* a / b for b # 0
RDiv(a, b) == RMul(a, Rat(b.d, b.n))
RLess(a, b) == a.n * b.d < b.n * a.d
RLeq(a, b) == a.n * b.d <= b.n * a.d
RZero == RInt(0)

(***************************************************************************)
(* Sequences.                                                              *)
(***************************************************************************)
Range(s) == {s[i] : i \in DOMAIN s}

RECURSIVE SumSeq(_)
SumSeq(s) == IF s = <<>> THEN 0 ELSE Head(s) + SumSeq(Tail(s))

RECURSIVE Flatten(_)
Flatten(ss) == IF ss = <<>> THEN <<>> ELSE Head(ss) \o Flatten(Tail(ss))

Reverse(s) == [i \in 1..Len(s) |-> s[Len(s) + 1 - i]]

MinOf(S) == CHOOSE m \in S : \A k \in S : m <= k
MaxOf(S) == CHOOSE m \in S : \A k \in S : m >= k

(***************************************************************************)
(* Rasters.                                                                *)
(***************************************************************************)
Pixels == (0..(ImgW - 1)) \X (0..(ImgH - 1))

\* a set of pixels written out element by element (the same set)
Raster(S) == {p : p \in S}

\* position of a pixel in row-major (raster scan) order
RasterIdx(p) == p[2] * ImgW + p[1]

\* the pixels of S as a sequence in raster scan order
RECURSIVE RasterSeq(_)
RasterSeq(S) ==
    IF S = {} THEN <<>>
    ELSE LET p == CHOOSE q \in S : \A r \in S : RasterIdx(q) <= RasterIdx(r)
         IN  <<p>> \o RasterSeq(Raster(S \ {p}))

\* numpy slice [y:y+h, x:x+w] of a raster of the image's shape: the pixels of
\* the rectangle that lie in the image (a slice is clipped to the array)
RectPixels(roi) ==
    Raster({p \in Pixels : /\ roi[1] <= p[1] /\ p[1] < roi[1] + roi[3]
                           /\ roi[2] <= p[2] /\ p[2] < roi[2] + roi[4]})

(***************************************************************************)
(* OpenCV operations, as the processor calls them.                         *)
(***************************************************************************)
\* cv2.threshold(src, thresh, 255, THRESH_BINARY) over the pixels of region:
\* a pixel is set when its value is greater than thresh
threshold(src, region, thresh) == Raster({p \in region : src[p] > thresh})

Nbrs8(p) ==
    Raster({q \in Pixels : /\ q # p
                           /\ Abs(q[1] - p[1]) <= 1
                           /\ Abs(q[2] - p[2]) <= 1})

\* cv2.erode with a 3x3 kernel of ones: the minimum over the 3x3 window; the
\* default border value does not erode, so only neighbours inside the image count
erode(mask) == Raster({p \in mask : Nbrs8(p) \subseteq mask})

\* cv2.dilate with a 3x3 kernel of ones: the maximum over the 3x3 window
dilate(mask) == Raster(mask \cup {p \in Pixels : Nbrs8(p) \cap mask # {}})

\* the eight directions in counterclockwise order on the screen, from east
Dirs == << <<1, 0>>, <<1, -1>>, <<0, -1>>, <<-1, -1>>,
           <<-1, 0>>, <<-1, 1>>, <<0, 1>>, <<1, 1>> >>

Step(p, d) == <<p[1] + Dirs[d + 1][1], p[2] + Dirs[d + 1][2]>>

\* the direction (0..7) that leads from pixel p to its neighbour q
DirTo(p, q) == CHOOSE d \in 0..7 : Step(p, d) = q

\* the direction of the first set neighbour of p met when turning clockwise,
\* starting at direction d0 (the k-th candidate is d0 - k); -1 when p has no
\* set neighbour
FirstClockwise(mask, p, d0) ==
    LET hits == {k \in 0..7 : Step(p, (d0 + 8 - k) % 8) \in mask}
    IN  IF hits = {} THEN -1 ELSE (d0 + 8 - MinOf(hits)) % 8

\* first set neighbour of p met when turning counterclockwise, starting with the
\* direction after dprev and ending with dprev itself
FirstCounterClockwise(mask, p, dprev) ==
    LET hits == {k \in 1..8 : Step(p, (dprev + k) % 8) \in mask}
    IN  Step(p, (dprev + MinOf(hits)) % 8)

\* border following (Suzuki and Abe) of the outer border that starts at `start`:
\* cur is the current border pixel, dprev the direction from cur to the pixel
\* examined last, first the border's last pixel, acc the points so far
RECURSIVE FollowBorder(_, _, _, _, _, _)
FollowBorder(mask, start, first, cur, dprev, acc) ==
    LET nxt == FirstCounterClockwise(mask, cur, dprev)
    IN  IF nxt = start /\ cur = first
        THEN acc
        ELSE FollowBorder(mask, start, first, nxt, DirTo(nxt, cur),
                          Append(acc, nxt))

\* the outer border of the 8-connected component whose first pixel in raster
\* order is `start` (so its west neighbour is background), every border pixel
\* listed (CHAIN_APPROX_NONE)
TraceContour(mask, start) ==
    LET d1 == FirstClockwise(mask, start, 4)
    IN  IF d1 = -1 THEN <<start>>
        ELSE FollowBorder(mask, start, Step(start, d1), start, d1, <<start>>)

\* p and q are neighbours in the 3x3 window
Adjacent(p, q) ==
    p # q /\ Abs(q[1] - p[1]) <= 1 /\ Abs(q[2] - p[2]) <= 1

\* the 8-connected component of mask that holds the pixels of `seen`
RECURSIVE Component(_, _)
Component(mask, seen) ==
    LET more == Raster({q \in mask :
                           q \notin seen /\ \E p \in seen : Adjacent(p, q)})
    IN  IF more = {} THEN seen ELSE Component(mask, Raster(seen \cup more))

\* the first pixel (raster order) of every 8-connected component of mask
RECURSIVE ComponentStarts(_)
ComponentStarts(mask) ==
    IF mask = {} THEN {}
    ELSE LET p == CHOOSE q \in mask :
                      \A r \in mask : RasterIdx(q) <= RasterIdx(r)
         IN  {p} \cup ComponentStarts(Raster(mask \ Component(mask, {p})))

\* cv2.findContours(mask, RETR_EXTERNAL, CHAIN_APPROX_NONE): one outer border per
\* 8-connected component; the raster scan finds them top to bottom and the
\* returned list holds the border found last first
findContours(mask) ==
    LET starts == Reverse(RasterSeq(ComponentStarts(mask)))
    IN  [i \in 1..Len(starts) |-> TraceContour(mask, starts[i])]

\* the edges of a closed point sequence, the closing edge included
Edges(poly) ==
    {<<poly[i], poly[(i % Len(poly)) + 1]>> : i \in 1..Len(poly)}

\* p lies on the segment from a to b
OnSegment(p, a, b) ==
    /\ (b[1] - a[1]) * (p[2] - a[2]) = (b[2] - a[2]) * (p[1] - a[1])
    /\ MinOf({a[1], b[1]}) <= p[1] /\ p[1] <= MaxOf({a[1], b[1]})
    /\ MinOf({a[2], b[2]}) <= p[2] /\ p[2] <= MaxOf({a[2], b[2]})

\* the horizontal ray from p to the east crosses the edge from a to b
RayCrosses(p, a, b) ==
    /\ (a[2] > p[2]) # (b[2] > p[2])
    /\ IF b[2] > a[2]
       THEN (p[1] - a[1]) * (b[2] - a[2]) < (p[2] - a[2]) * (b[1] - a[1])
       ELSE (p[1] - a[1]) * (b[2] - a[2]) > (p[2] - a[2]) * (b[1] - a[1])

\* the pixels a filled contour covers: those on its edges and those inside it
\* (an odd number of edge crossings). Exact for contours whose edges are
\* horizontal, vertical or diagonal, the only ones the model draws.
FilledPixels(contour) ==
    IF contour = <<>> THEN {}
    ELSE Raster({p \in Pixels :
            \/ \E e \in Edges(contour) : OnSegment(p, e[1], e[2])
            \/ Cardinality({i \in 1..Len(contour) :
                   RayCrosses(p, contour[i],
                              contour[(i % Len(contour)) + 1])}) % 2 = 1})

\* cv2.drawContours(mask, contours, -1, color, thickness=FILLED): the pixels
\* the call writes (clipped to the image)
drawContours(contours) ==
    Raster(UNION {FilledPixels(contours[i]) : i \in DOMAIN contours})

\* number of pixels of region whose value in src is v (the histogram's bin v)
Hist(src, region, v) == Cardinality({p \in region : src[p] = v})

\* the sum of src over the pixels of S
RECURSIVE SumOver(_, _)
SumOver(src, S) ==
    IF S = {} THEN 0
    ELSE LET p == CHOOSE q \in S : TRUE
         IN  src[p] + SumOver(src, Raster(S \ {p}))

\* Otsu's between-class variance of the split "value <= t" / "value > t", as
\* the fraction num/den (both classes non-empty), up to the constant factor
\* 1/n^2 that the comparison of two splits does not need
OtsuSigma(src, region, t) ==
    LET lo == {p \in region : src[p] <= t}
        hi == region \ lo
        q1 == Cardinality(lo)
        q2 == Cardinality(hi)
        d  == SumOver(src, lo) * q2 - SumOver(src, hi) * q1
    IN  [num |-> d * d, den |-> q1 * q2]

\* threshold returned by cv2.threshold(src, 0, 255, THRESH_BINARY + THRESH_OTSU)
\* over region: the first t in 0..255 whose between-class variance is greater
\* than that of every earlier t (0 when no t splits the pixels). The variance
\* changes only at the values present, so only those are compared.
Otsu(src, region) ==
    LET vals  == {src[p] : p \in region}
        cands == vals \ {MaxOf(vals)}
        Better(a, b) ==
            OtsuSigma(src, region, a).num * OtsuSigma(src, region, b).den
              > OtsuSigma(src, region, b).num * OtsuSigma(src, region, a).den
    IN  IF cands = {} THEN 0
        ELSE CHOOSE t \in cands :
                 /\ \A u \in cands : ~Better(u, t)
                 /\ \A u \in cands : u < t => Better(t, u)

\* number of histogram bins of an 8-bit image
HistBins == 256

\* the scan of getThreshVal_Triangle over bins i..max_ind: the first bin whose
\* a*i + b*h[i] is greater than every earlier one (dist, thresh: best so far)
RECURSIVE TriangleScan(_, _, _, _, _, _)
TriangleScan(h, i, max_ind, ab, dist, thresh) ==
    IF i > max_ind THEN thresh
    ELSE LET tempdist == ab[1] * i + ab[2] * h[i]
         IN  IF tempdist > dist
             THEN TriangleScan(h, i + 1, max_ind, ab, tempdist, i)
             ELSE TriangleScan(h, i + 1, max_ind, ab, dist, thresh)

\* threshold returned by cv2.threshold(src, 0, 255, THRESH_BINARY +
\* THRESH_TRIANGLE) over region (OpenCV's getThreshVal_Triangle_8u)
Triangle(src, region) ==
    LET N     == HistBins
        vals  == {src[p] : p \in region}
        h0    == [i \in 0..(N - 1) |-> Hist(src, region, i)]
        lb0   == IF MinOf(vals) > 0 THEN MinOf(vals) - 1 ELSE 0
        rb00  == IF MaxOf(vals) > 0 THEN MaxOf(vals) ELSE 0
        rb0   == IF rb00 < N - 1 THEN rb00 + 1 ELSE rb00
        max   == MaxOf({h0[i] : i \in vals})
        mi0   == MinOf({i \in vals : h0[i] = max})
        flip  == (mi0 - lb0) < (rb0 - mi0)
        h     == IF flip THEN [i \in 0..(N - 1) |-> h0[N - 1 - i]] ELSE h0
        lb    == IF flip THEN N - 1 - rb0 ELSE lb0
        mi    == IF flip THEN N - 1 - mi0 ELSE mi0
        t     == TriangleScan(h, lb + 1, mi, <<max, lb - mi>>, 0, lb) - 1
    IN  IF flip THEN N - 1 - t ELSE t

\* fixed-point (16 bit) costs of a horizontal/vertical and of a diagonal step of
\* cv2.distanceTransform(mask, DIST_L2, 3), and the distance it starts from
\* outside the image
HV_DIST == 62587
DIAG_DIST == 89738
INIT_DIST0 == 536870911
DIST_SCALE == 65536

\* chamfer cost of the cheapest 8-connected path between two pixels
ChamferCost(p, q) ==
    LET dx == Abs(p[1] - q[1])
        dy == Abs(p[2] - q[2])
        mn == IF dx < dy THEN dx ELSE dy
        mx == IF dx < dy THEN dy ELSE dx
    IN  DIAG_DIST * mn + HV_DIST * (mx - mn)

\* cv2.distanceTransform(mask, DIST_L2, 3).astype(uint16): per pixel of the
\* mask the chamfer distance to the nearest zero pixel, cut to an integer; the
\* frame around the image counts as INIT_DIST0 away
distanceTransform(mask) ==
    [p \in Pixels |->
        IF p \notin mask THEN 0
        ELSE LET toZero  == {ChamferCost(p, q) : q \in Pixels \ mask}
                 toFrame == INIT_DIST0 + HV_DIST *
                            MinOf({p[1] + 1, p[2] + 1, ImgW - p[1], ImgH - p[2]})
             IN  MinOf(toZero \cup {toFrame}) \div DIST_SCALE]

(***************************************************************************)
(* polygon_tools.py                                                        *)
(***************************************************************************)
contour_to_polygon(contour) == contour

polygon_to_contour(polygon) == polygon

\* the shoelace sum of polygon_signed_area before it is halved
ShoelaceSum(pt_list) ==
    LET n == Len(pt_list)
        open == SumSeq([idx \in 1..(n - 1) |->
                    pt_list[idx][2] * pt_list[idx + 1][1]
                      - pt_list[idx][1] * pt_list[idx + 1][2]])
    IN  IF pt_list[1] # pt_list[n]
        THEN open + (pt_list[n][2] * pt_list[1][1]
                       - pt_list[n][1] * pt_list[1][2])
        ELSE open

\* the signed area without the edge from the last point back to the first
polygon_signed_area_open(pt_list) ==
    IF Len(pt_list) < 3 THEN RZero
    ELSE Rat(SumSeq([idx \in 1..(Len(pt_list) - 1) |->
                 pt_list[idx][2] * pt_list[idx + 1][1]
                   - pt_list[idx][1] * pt_list[idx + 1][2]]), 2)

polygon_signed_area(pt_list) ==
    IF Len(pt_list) < 3 THEN RZero ELSE Rat(ShoelaceSum(pt_list), 2)

polygon_area(pt_list) ==
    LET area == polygon_signed_area(pt_list)
    IN  IF RLess(area, RZero) THEN RMul(area, RInt(-1)) ELSE area

polygon_mbr(polygon) ==
    LET x_coords == {polygon[i][1] : i \in DOMAIN polygon}
        y_coords == {polygon[i][2] : i \in DOMAIN polygon}
        x == MinOf(x_coords)
        y == MinOf(y_coords)
    IN  <<x, y, MaxOf(x_coords) - x + 1, MaxOf(y_coords) - y + 1>>

\* largest_polygon comparing the signed areas
largest_polygon_signed(polygons) ==
    IF Len(polygons) <= 0 THEN -1
    ELSE LET Larger(i, j) == RLess(polygon_signed_area(polygons[j]),
                                   polygon_signed_area(polygons[i]))
             best == {i \in DOMAIN polygons :
                        /\ RLess(RZero, polygon_signed_area(polygons[i]))
                        /\ \A j \in DOMAIN polygons : ~Larger(j, i)}
         IN  IF best = {} THEN 0 ELSE MinOf(best) - 1

\* index (from 0) of the polygon of largest area, the first of them; -1 for an
\* empty list
largest_polygon(polygons) ==
    IF Len(polygons) <= 0 THEN -1
    ELSE LET Larger(i, j) == RLess(polygon_area(polygons[j]),
                                   polygon_area(polygons[i]))
             best == {i \in DOMAIN polygons :
                        /\ RLess(RZero, polygon_area(polygons[i]))
                        /\ \A j \in DOMAIN polygons : ~Larger(j, i)}
         IN  IF best = {} THEN 0 ELSE MinOf(best) - 1

largest_contour(contours) ==
    largest_polygon([i \in DOMAIN contours |-> contour_to_polygon(contours[i])])

(***************************************************************************)
(* Image files. cv2.imread gives the raster of a readable file and None    *)
(* otherwise. Intensities: 0 black, Background, Paper, Spot.               *)
(***************************************************************************)
Intensity == [black |-> 0, background |-> 2, paper |-> 10, spot |-> 14]

\* a sheet of paper that leaves the last column of the image uncovered, with
\* one stained pixel in the first and one in the last row
PaperImage ==
    [p \in Pixels |->
        IF p[1] = ImgW - 1 THEN Intensity.background
        ELSE IF p = <<0, 0>> \/ p = <<ImgW - 2, ImgH - 1>> THEN Intensity.spot
        ELSE Intensity.paper]

BlackImage == [p \in Pixels |-> Intensity.black]

Files == {"paper.tif", "black.tif", "missing.tif"}

imread(filename) ==
    CASE filename = "paper.tif" -> Some(PaperImage)
      [] filename = "black.tif" -> Some(BlackImage)
      [] OTHER -> None

(***************************************************************************)
(* VsaProcessor (src/src/vsa.py). The object is a record of its fields; a  *)
(* method is an operator from the object (and the arguments) to            *)
(* [vp: the object after the call, ret: the value returned, raised: the    *)
(* exception that ended the call, "" when it returned].                    *)
(* Attributes that exist only after a first assignment (dist_map, roi,     *)
(* roi_mask, img_median) start as None / the zero rectangle.               *)
(***************************************************************************)
Result(vp, ret, raised) == [vp |-> vp, ret |-> ret, raised |-> raised]

\* __init__
NewVsaProcessor ==
    [image_file |-> "", img |-> None, img_extended |-> None,
     img_median |-> None, paper_mask |-> None, paper_polygon |-> <<>>,
     dist_map |-> None, spot_mask |-> None, spot_polygons |-> <<>>,
     spot_polygon_properties |-> <<>>, roi |-> <<0, 0, 0, 0>>,
     roi_mask |-> None, roi_polygons |-> <<>>, win_size |-> WinSize]

open_image(vp, filename) ==
    LET reset == [vp EXCEPT !.image_file = "", !.img = None,
                            !.paper_mask = None, !.dist_map = None,
                            !.spot_mask = None, !.paper_polygon = <<>>,
                            !.spot_polygons = <<>>,
                            !.spot_polygon_properties = <<>>,
                            !.roi = <<0, 0, 0, 0>>, !.roi_mask = None,
                            !.roi_polygons = <<>>]
        img == imread(filename)
    IN  IF img = None THEN Result(reset, "False", "")
        ELSE Result([reset EXCEPT !.image_file = filename, !.img = img,
                                  !.spot_mask = Some({})],
                    "True", "")

have_img(vp) == vp.img # None

Clamp(v, lo, hi) == IF v < lo THEN lo ELSE IF v > hi THEN hi ELSE v

\* int((1.0 - triangle_weight) * thresh_otsu + triangle_weight * thresh_triangle)
\* with triangle_weight = 0.75: int() cuts the fraction off
WeightedThreshold(thresh_otsu, thresh_triangle) ==
    (thresh_otsu + 3 * thresh_triangle) \div 4

DefaultThreshold(thresh_otsu, thresh_triangle) ==
    Clamp(WeightedThreshold(thresh_otsu, thresh_triangle), 0, MaxIntensity)

\* returns an integer: -1 without an image
get_default_paper_threshold(vp) ==
    IF ~have_img(vp) THEN -1
    ELSE DefaultThreshold(Otsu(vp.img[1], Pixels), Triangle(vp.img[1], Pixels))

\* the values of a set of pixels, sorted ascending
RECURSIVE SortedValues(_, _)
SortedValues(src, S) ==
    IF S = {} THEN <<>>
    ELSE LET p == CHOOSE q \in S : \A r \in S : src[q] <= src[r]
         IN  <<src[p]>> \o SortedValues(src, Raster(S \ {p}))

\* np.median of a non-empty list: the middle value, or the mean of the two
\* middle values of a list of even length
Median(sorted) ==
    LET n == Len(sorted)
    IN  IF n % 2 = 1 THEN RInt(sorted[(n + 1) \div 2])
        ELSE Rat(sorted[n \div 2] + sorted[n \div 2 + 1], 2)

\* a float cast to the image's integer type: the fraction is cut off
Trunc(r) == r.n \div r.d

\* the median is taken over the pixels of the mask whose value is greater than 0
\* (the list is not empty: the mask holds a pixel above a threshold >= 0)
extend_image(vp) ==
    LET img == vp.img[1]
        mask == vp.paper_mask[1]
        tmp_list == SortedValues(img, Raster({p \in mask : img[p] > 0}))
        img_median == Median(tmp_list)
    IN  [vp EXCEPT !.img_median = Some(img_median),
                   !.img_extended = Some([p \in Pixels |->
                        IF p \in mask THEN img[p] ELSE Trunc(img_median)])]

segment_paper(vp, threshold_value) ==
    IF ~have_img(vp) THEN Result(vp, "False", "")
    ELSE LET paper_mask == threshold(vp.img[1], Pixels, threshold_value)
             opened == dilate(erode(paper_mask))
             paper_contours == findContours(opened)
             idx_of_largest_contour == largest_contour(paper_contours)
         IN  IF paper_mask = {} THEN Result(vp, "False", "")
             ELSE IF idx_of_largest_contour = -1
             \* paper_contours[-1] of an empty tuple, after the mask was zeroed
             THEN Result([vp EXCEPT !.paper_mask = Some({})], "None",
                         "IndexError")
             ELSE LET contour == paper_contours[idx_of_largest_contour + 1]
                      vp1 == [vp EXCEPT
                                !.paper_mask = Some(drawContours(<<contour>>)),
                                !.paper_polygon = contour_to_polygon(contour)]
                      vp2 == extend_image(vp1)
                  IN  Result([vp2 EXCEPT !.dist_map =
                                 Some(distanceTransform(vp2.paper_mask[1]))],
                             "True", "")

_vectorize_spots(vp) ==
    LET spot_contours == findContours(vp.spot_mask[1])
    IN  [vp EXCEPT !.spot_polygons =
            [i \in DOMAIN spot_contours |->
                contour_to_polygon(spot_contours[i])]]

\* save_roi_spots writing the candidate over the mask in place of the OR
save_roi_spots_replacing(vp) ==
    IF Len(vp.roi_polygons) = 0 THEN Result(vp, "None", "")
    ELSE Result(_vectorize_spots(
                    [vp EXCEPT !.spot_mask =
                        Some(Raster((vp.spot_mask[1] \ RectPixels(vp.roi))
                                    \cup vp.roi_mask[1]))]),
                "None", "")

\* save_roi_spots without the test of roi_polygons
save_roi_spots_of_any(vp) ==
    IF vp.spot_mask = None \/ vp.roi_mask = None
    THEN Result(vp, "None", "TypeError")
    ELSE Result(_vectorize_spots(
                    [vp EXCEPT !.spot_mask =
                        Some(Raster(vp.spot_mask[1] \cup vp.roi_mask[1]))]),
                "None", "")

\* roi_mask holds the pixels of the rectangle roi (image coordinates), so the
\* OR over the slice [y:y+h, x:x+w] is the union of the two masks
save_roi_spots(vp) ==
    IF Len(vp.roi_polygons) = 0 THEN Result(vp, "None", "")
    ELSE Result(_vectorize_spots(
                    [vp EXCEPT !.spot_mask =
                        Some(Raster(vp.spot_mask[1] \cup vp.roi_mask[1]))]),
                "None", "")

\* clear_poly_selection drawing the polygon with the fill colour
clear_poly_selection_filling(vp, polygon) ==
    IF vp.img = None THEN Result(vp, "None", "")
    ELSE Result(_vectorize_spots(
                    [vp EXCEPT !.spot_mask =
                        Some(Raster(vp.spot_mask[1] \cup
                             drawContours(<<polygon_to_contour(polygon)>>)))]),
                "None", "")

clear_poly_selection(vp, polygon) ==
    IF vp.img = None THEN Result(vp, "None", "")
    ELSE Result(_vectorize_spots(
                    [vp EXCEPT !.spot_mask =
                        Some(Raster(vp.spot_mask[1] \
                             drawContours(<<polygon_to_contour(polygon)>>)))]),
                "None", "")

fill_poly_selection(vp, polygon) ==
    IF vp.img = None THEN Result(vp, "None", "")
    ELSE Result(_vectorize_spots(
                    [vp EXCEPT !.spot_mask =
                        Some(Raster(vp.spot_mask[1] \cup
                             drawContours(<<polygon_to_contour(polygon)>>)))]),
                "None", "")

\* the result of _find_spots_in_rect: the polygons and the mask it returns
FindResult(vp, polygons, roi_mask, raised) ==
    [vp |-> vp, polygons |-> polygons, roi_mask |-> roi_mask, raised |-> raised]

\* _find_spots_in_rect without the test of roi_range against min_range
_find_spots_in_rect_any_range(vp, roi, threshold_adjustment, min_range, min_dist_from_median) ==
    LET vp0 == [vp EXCEPT !.roi = roi, !.roi_mask = None, !.roi_polygons = <<>>]
        region == RectPixels(roi)
    IN  IF vp.img_extended = None
        THEN FindResult(vp0, <<>>, None, "TypeError")
        ELSE IF region = {}
        THEN FindResult(vp0, <<>>, None, "IndexError")
        ELSE
        LET roi_img == vp.img_extended[1]
            thresh_otsu == Otsu(roi_img, region)
            thresh == Clamp(thresh_otsu + threshold_adjustment, 1, MaxIntensity)
            roi_mask == threshold(roi_img, region, thresh)
            img_median == vp.img_median[1]
            contours == findContours(roi_mask)
        IN  IF roi_mask = {} THEN FindResult(vp0, <<>>, None, "")
            ELSE IF RLess(RInt(thresh), img_median)
            THEN FindResult(vp0, <<>>, None, "")
            ELSE IF RLess(RSub(RInt(thresh), img_median),
                          RInt(min_dist_from_median))
            THEN FindResult(vp0, <<>>, None, "")
            ELSE FindResult([vp0 EXCEPT !.roi_mask = Some(roi_mask)],
                            [i \in DOMAIN contours |->
                                contour_to_polygon(contours[i])],
                            Some(roi_mask), "")

_find_spots_in_rect(vp, roi, threshold_adjustment, min_range, min_dist_from_median) ==
    LET vp0 == [vp EXCEPT !.roi = roi, !.roi_mask = None, !.roi_polygons = <<>>]
        region == RectPixels(roi)
    IN  IF vp.img_extended = None
        \* self.img_extended[y:y+h, x:x+w] of None
        THEN FindResult(vp0, <<>>, None, "TypeError")
        ELSE IF region = {}
        \* tmp_list[0] of an empty list
        THEN FindResult(vp0, <<>>, None, "IndexError")
        ELSE
        LET roi_img == vp.img_extended[1]
            tmp_list == SortedValues(roi_img, region)
            min_val == tmp_list[1]
            max_val == tmp_list[Len(tmp_list)]
            roi_range == max_val - min_val
            thresh_otsu == Otsu(roi_img, region)
            \* triangle_weight = 0.0: the threshold is Otsu's
            thresh == Clamp(thresh_otsu + threshold_adjustment, 1, MaxIntensity)
            roi_mask == threshold(roi_img, region, thresh)
            img_median == vp.img_median[1]
            contours == findContours(roi_mask)
        IN  IF roi_mask = {} THEN FindResult(vp0, <<>>, None, "")
            ELSE IF RLess(RInt(thresh), img_median)
            THEN FindResult(vp0, <<>>, None, "")
            ELSE IF roi_range < min_range
            THEN FindResult(vp0, <<>>, None, "")
            ELSE IF RLess(RSub(RInt(thresh), img_median),
                          RInt(min_dist_from_median))
            THEN FindResult(vp0, <<>>, None, "")
            ELSE FindResult([vp0 EXCEPT !.roi_mask = Some(roi_mask)],
                            [i \in DOMAIN contours |->
                                contour_to_polygon(contours[i])],
                            Some(roi_mask), "")

\* set_spot_polygons without its guard: the list is stored, then self.img.shape
\* of None
set_spot_polygons_unguarded(vp, polygons) ==
    IF vp.img = None
    THEN Result([vp EXCEPT !.spot_polygons = polygons], "None",
                "AttributeError")
    ELSE Result([vp EXCEPT
                    !.spot_polygons = polygons,
                    !.spot_mask = Some(drawContours(
                        [i \in DOMAIN polygons |->
                            polygon_to_contour(polygons[i])]))],
                "None", "")

\* the mask is drawn from the polygons; the polygon list is the one given
set_spot_polygons(vp, polygons) ==
    IF vp.img = None THEN Result(vp, "False", "")
    ELSE Result([vp EXCEPT
                    !.spot_polygons = polygons,
                    !.spot_mask = Some(drawContours(
                        [i \in DOMAIN polygons |->
                            polygon_to_contour(polygons[i])]))],
                "None", "")

\* the candidate `found` of _find_spots_in_rect becomes the processor's
RoiFound(found) ==
    IF found.raised # "" THEN Result(found.vp, "None", found.raised)
    ELSE Result([found.vp EXCEPT !.roi_polygons = found.polygons], "None", "")

\* segment_spots_in_roi merging the candidate into the spot mask at once
segment_spots_in_roi_committing(vp, roi, threshold_adjustment, min_range, min_dist_from_median) ==
    IF ~have_img(vp) THEN Result(vp, "None", "")
    ELSE save_roi_spots(
             RoiFound(_find_spots_in_rect(vp, roi, threshold_adjustment,
                                          min_range, min_dist_from_median)).vp)

segment_spots_in_roi(vp, roi, threshold_adjustment, min_range, min_dist_from_median) ==
    IF ~have_img(vp) THEN Result(vp, "None", "")
    ELSE RoiFound(_find_spots_in_rect(vp, roi, threshold_adjustment,
                                      min_range, min_dist_from_median))

CeilDiv(a, b) == (a + b - 1) \div b

\* the tiles without the cut at the right and the lower edge of the image
TilesUnclipped(w, h, win_size) ==
    LET x_count == CeilDiv(w, win_size)
        y_count == CeilDiv(h, win_size)
    IN  [k \in 1..(x_count * y_count) |->
            LET x_idx == (k - 1) % x_count
                y_idx == (k - 1) \div x_count
                x1 == x_idx * win_size
                y1 == y_idx * win_size
            IN  <<x1, y1, x1 + win_size, y1 + win_size>>]

\* the tiles [x1, y1, x2, y2] of segment_spots, row by row
Tiles(w, h, win_size) ==
    LET x_count == CeilDiv(w, win_size)
        y_count == CeilDiv(h, win_size)
    IN  [k \in 1..(x_count * y_count) |->
            LET x_idx == (k - 1) % x_count
                y_idx == (k - 1) \div x_count
                x1 == x_idx * win_size
                y1 == y_idx * win_size
            IN  <<x1, y1,
                  IF x1 + win_size < w THEN x1 + win_size ELSE w,
                  IF y1 + win_size < h THEN y1 + win_size ELSE h>>]

TileRoi(tile) == <<tile[1], tile[2], tile[3] - tile[1], tile[4] - tile[2]>>

\* the loop over the tiles from tile k on: each tile's mask is written into
\* spot_mask (mask: the pixels set so far). A rejected tile returns None, which
\* the float array stores as NaN; nan_is_set tells whether the later cast of
\* NaN to uint8 gives a non-zero value (the cast is undefined behaviour).
RECURSIVE StitchTiles(_, _, _, _, _, _)
RECURSIVE StitchTile(_, _, _, _, _, _)
StitchTiles(vp, tiles, k, params, nan_is_set, mask) ==
    IF k > Len(tiles) THEN [vp |-> vp, mask |-> mask, raised |-> ""]
    ELSE StitchTile(_find_spots_in_rect(vp, TileRoi(tiles[k]), params[1],
                                        params[2], params[3]),
                    tiles, k, params, nan_is_set, mask)

\* tile k, whose candidate is `found`, and the tiles after it
StitchTile(found, tiles, k, params, nan_is_set, mask) ==
    LET roi == TileRoi(tiles[k])
        written == IF found.roi_mask = None
                   THEN IF nan_is_set THEN RectPixels(roi) ELSE {}
                   ELSE found.roi_mask[1]
    IN  IF found.raised # ""
        THEN [vp |-> found.vp, mask |-> mask, raised |-> found.raised]
        ELSE StitchTiles(found.vp, tiles, k + 1, params, nan_is_set,
                         Raster((mask \ RectPixels(roi)) \cup written))

\* the end of segment_spots: the stitched mask is cut to the paper and
\* vectorized. np.where(self.paper_mask == 0, 0, self.spot_mask): with
\* paper_mask None the comparison is False for every pixel
StoreSpots(paper_mask, stitched) ==
    IF stitched.raised # ""
    THEN Result([stitched.vp EXCEPT !.spot_mask = Some(stitched.mask)],
                "None", stitched.raised)
    ELSE Result(_vectorize_spots(
                    [stitched.vp EXCEPT !.spot_mask =
                        Some(IF paper_mask = None THEN stitched.mask
                             ELSE Raster(stitched.mask \cap paper_mask[1]))]),
                "None", "")

segment_spots(vp, threshold_adjustment, min_range, min_dist_from_median, nan_is_set) ==
    IF ~have_img(vp)
    THEN Result([vp EXCEPT !.roi_polygons = <<>>, !.spot_polygons = <<>>],
                "None", "")
    ELSE StoreSpots(vp.paper_mask,
             StitchTiles([vp EXCEPT !.roi_polygons = <<>>,
                                    !.spot_polygons = <<>>,
                                    !.spot_mask = Some({})],
                         Tiles(ImgW, ImgH, vp.win_size), 1,
                         <<threshold_adjustment, min_range,
                           min_dist_from_median>>, nan_is_set, {}))

(***************************************************************************)
(* AreaVolumeMap (area_volume_map.py). Floats are exact fractions.         *)
(***************************************************************************)
NewAreaVolumeMap == [c1 |-> RZero, c2 |-> RZero]

\* volume_uL = c2*area_cm2*area_cm2 + c1*area_cm2
map_area(volume_mapper, area_cm2) ==
    RAdd(RMul(RMul(volume_mapper.c2, area_cm2), area_cm2),
         RMul(volume_mapper.c1, area_cm2))

\* the sum of a sequence of fractions
RECURSIVE RSumSeq(_)
RSumSeq(s) == IF s = <<>> THEN RZero ELSE RAdd(Head(s), RSumSeq(Tail(s)))

\* the sum of f(point) over the points
RSum(points, f(_)) == RSumSeq([i \in DOMAIN points |-> f(points[i])])

RPow(x, k) == IF k = 1 THEN x
              ELSE IF k = 2 THEN RMul(x, x)
              ELSE IF k = 3 THEN RMul(x, RMul(x, x))
              ELSE RMul(RMul(x, x), RMul(x, x))

\* the object after the call and the exception that ended it ("" when none);
\* compute_model has zeroed c1 and c2 before it calls the fit
\* the linear fit as the ratio of the sums of volumes and areas
_compute_linear_model_of_sums(volume_mapper, points) ==
    LET X(p) == p[1]
        Y(p) == p[2]
        sum_x == RSum(points, X)
        sum_y == RSum(points, Y)
    IN  IF sum_x = RZero
        THEN [volume_mapper |-> volume_mapper, raised |-> "ZeroDivisionError"]
        ELSE [volume_mapper |-> [c1 |-> RDiv(sum_y, sum_x), c2 |-> RZero],
              raised |-> ""]

_compute_linear_model(volume_mapper, points) ==
    LET X2(p) == RPow(p[1], 2)
        XY(p) == RMul(p[1], p[2])
        sum_xx == RSum(points, X2)
        sum_xy == RSum(points, XY)
    IN  IF sum_xx = RZero
        \* sum_xy/sum_xx of floats
        THEN [volume_mapper |-> volume_mapper, raised |-> "ZeroDivisionError"]
        ELSE [volume_mapper |-> [c1 |-> RDiv(sum_xy, sum_xx), c2 |-> RZero],
              raised |-> ""]

\* the quadratic fit with the two coefficients exchanged
_compute_second_order_model_swapped(volume_mapper, points) ==
    LET X2(p) == RPow(p[1], 2)
        X3(p) == RPow(p[1], 3)
        X4(p) == RPow(p[1], 4)
        XY(p) == RMul(p[1], p[2])
        X2Y(p) == RMul(RPow(p[1], 2), p[2])
        a1 == RSum(points, X3)
        b1 == RSum(points, X2)
        c1 == RSum(points, XY)
        a2 == RSum(points, X4)
        c2 == RSum(points, X2Y)
        det == RSub(RMul(a1, a1), RMul(a2, b1))
    IN  IF det = RZero
        THEN [volume_mapper |-> volume_mapper, raised |-> "ZeroDivisionError"]
        ELSE [volume_mapper |->
                 [c2 |-> RDiv(RSub(RMul(a1, c2), RMul(a2, c1)), det),
                  c1 |-> RDiv(RSub(RMul(a1, c1), RMul(b1, c2)), det)],
              raised |-> ""]

_compute_second_order_model(volume_mapper, points) ==
    LET X2(p) == RPow(p[1], 2)
        X3(p) == RPow(p[1], 3)
        X4(p) == RPow(p[1], 4)
        XY(p) == RMul(p[1], p[2])
        X2Y(p) == RMul(RPow(p[1], 2), p[2])
        a1 == RSum(points, X3)
        b1 == RSum(points, X2)
        c1 == RSum(points, XY)
        a2 == RSum(points, X4)
        b2 == RSum(points, X3)
        c2 == RSum(points, X2Y)
        det == RSub(RMul(a1, b2), RMul(a2, b1))
    IN  IF det = RZero
        \* the division of line 60, before either coefficient is assigned
        THEN [volume_mapper |-> volume_mapper, raised |-> "ZeroDivisionError"]
        ELSE [volume_mapper |->
                 [c1 |-> RDiv(RSub(RMul(a1, c2), RMul(a2, c1)), det),
                  c2 |-> RDiv(RSub(RMul(b2, c1), RMul(b1, c2)), det)],
              raised |-> ""]

\* compute_model returning at once on an empty list, the coefficients kept
compute_model_keeping(volume_mapper, points) ==
    LET zeroed == [c1 |-> RZero, c2 |-> RZero]
        fit == IF Len(points) <= 3 THEN _compute_linear_model(zeroed, points)
               ELSE _compute_second_order_model(zeroed, points)
    IN  IF Len(points) <= 0
        THEN [volume_mapper |-> volume_mapper, ret |-> "False", raised |-> ""]
        ELSE IF fit.raised # ""
        THEN [volume_mapper |-> fit.volume_mapper, ret |-> "None",
              raised |-> fit.raised]
        ELSE [volume_mapper |-> fit.volume_mapper, ret |-> "True",
              raised |-> ""]

\* [volume_mapper, ret, raised]
compute_model(volume_mapper, points) ==
    LET zeroed == [c1 |-> RZero, c2 |-> RZero]
        fit == IF Len(points) <= 3 THEN _compute_linear_model(zeroed, points)
               ELSE _compute_second_order_model(zeroed, points)
    IN  IF Len(points) <= 0
        THEN [volume_mapper |-> zeroed, ret |-> "False", raised |-> ""]
        ELSE IF fit.raised # ""
        THEN [volume_mapper |-> fit.volume_mapper, ret |-> "None",
              raised |-> fit.raised]
        ELSE [volume_mapper |-> fit.volume_mapper, ret |-> "True",
              raised |-> ""]

(***************************************************************************)
(* VsaProcessor.measure_spots                                              *)
(***************************************************************************)
\* int(a / 3): the quotient cut towards 0
ThirdOf(a) == IF a >= 0 THEN a \div 3 ELSE -((-a) \div 3)

\* the loop of smooth_polygon from index idx (from 1) on: the vertex before is
\* read from the list as the loop has left it, the last vertex for the first
RECURSIVE SmoothFrom(_, _)
SmoothFrom(polygon, idx) ==
    IF idx > Len(polygon) - 1 THEN polygon
    ELSE LET before == polygon[IF idx = 1 THEN Len(polygon) ELSE idx - 1]
             x == ThirdOf(before[1] + polygon[idx][1] + polygon[idx + 1][1])
             y == ThirdOf(before[2] + polygon[idx][2] + polygon[idx + 1][2])
         IN  SmoothFrom([polygon EXCEPT ![idx] = <<x, y>>], idx + 1)

\* the list after the call (the call changes it in place and returns None)
smooth_polygon(polygon) ==
    IF Len(polygon) < 5 THEN polygon ELSE SmoothFrom(polygon, 1)

\* the integer square root
ISqrt(n) == CHOOSE r \in 0..n : r * r <= n /\ (r + 1) * (r + 1) > n

\* the perimeter without the side from the last point back to the first
polygon_perimeter_open(pt_list) ==
    LET n == Len(pt_list)
        Sq(a, b) == (b[1] - a[1]) * (b[1] - a[1]) + (b[2] - a[2]) * (b[2] - a[2])
        sides == [idx \in 1..(n - 1) |-> Sq(pt_list[idx], pt_list[idx + 1])]
        IsSquare(d2) == ISqrt(d2) * ISqrt(d2) = d2
    IN  [whole |-> SumSeq([idx \in 1..(n - 1) |->
                      IF IsSquare(sides[idx]) THEN ISqrt(sides[idx]) ELSE 0]),
         surds |-> SelectSeq(sides, LAMBDA d2 : ~IsSquare(d2))]

\* the perimeter as the sum of the lengths of the sides, the closing side
\* included: `whole` adds up the sides of integer length, `surds` lists the
\* squared lengths of the others
polygon_perimeter(pt_list) ==
    LET n == Len(pt_list)
        Sq(a, b) == (b[1] - a[1]) * (b[1] - a[1]) + (b[2] - a[2]) * (b[2] - a[2])
        sides == [idx \in 1..n |->
                     IF idx < n THEN Sq(pt_list[idx], pt_list[idx + 1])
                     ELSE Sq(pt_list[n], pt_list[1])]
        IsSquare(d2) == ISqrt(d2) * ISqrt(d2) = d2
    IN  [whole |-> SumSeq([idx \in 1..n |->
                      IF IsSquare(sides[idx]) THEN ISqrt(sides[idx]) ELSE 0]),
         surds |-> SelectSeq(sides, LAMBDA d2 : ~IsSquare(d2))]

\* circularity, with a polygon of perimeter 0 taken for a circle
circularity_of_point(polygon) ==
    LET L == polygon_perimeter(polygon)
        A == polygon_area(polygon)
    IN  IF L.whole = 0 /\ L.surds = <<>>
        THEN [four_a |-> RInt(1), L |-> [whole |-> 2, surds |-> <<>>]]
        ELSE [four_a |-> RMul(RInt(4), A), L |-> L]

\* (4.0 * math.pi * A) / (L * L) as the pair of 4 * A and L: the value is
\* four_a * pi / L^2, and 0.0 is the pair of 0 and the perimeter 1
circularity(polygon) ==
    LET L == polygon_perimeter(polygon)
        A == polygon_area(polygon)
    IN  IF L.whole = 0 /\ L.surds = <<>>
        THEN [four_a |-> RZero, L |-> [whole |-> 1, surds |-> <<>>]]
        ELSE [four_a |-> RMul(RInt(4), A), L |-> L]

\* the value of a float division by zero in numpy (no exception)
NaN == [n |-> 0, d |-> 0]

\* pt.eccentricity(polygon): the measure is left open; the record only
\* carries it
eccentricity(polygon) == "eccentricity"

Classes == <<"junk", "nano", "micro", "primary">>

\* Classify with the second and the third comparison exchanged
ClassifySwapped(volume_ul, size_thresh_list) ==
    IF RLess(volume_ul, size_thresh_list[1]) THEN "junk"
    ELSE IF RLess(volume_ul, size_thresh_list[3]) THEN "nano"
    ELSE IF RLess(volume_ul, size_thresh_list[2]) THEN "micro"
    ELSE "primary"

\* the class of a mapped volume against three thresholds
Classify(volume_ul, size_thresh_list) ==
    IF RLess(volume_ul, size_thresh_list[1]) THEN "junk"
    ELSE IF RLess(volume_ul, size_thresh_list[2]) THEN "nano"
    ELSE IF RLess(volume_ul, size_thresh_list[3]) THEN "micro"
    ELSE "primary"

\* the record of one polygon from its measures; spot_mask holds the pixels
\* the polygon covers
PolyRecord(polygon, mbr, perimeter_pix, area_pix2, area_cm2, volume_ul, ave_dist, pix_per_cm, size_thresh_list) ==
    LET base == [img_x |-> mbr[1], img_y |-> mbr[2], img_w |-> mbr[3],
                 img_h |-> mbr[4],
                 perimeter_pix |-> perimeter_pix,
                 perimeter_cm |-> [pix |-> perimeter_pix, per_cm |-> pix_per_cm],
                 area_pix2 |-> area_pix2, area_cm2 |-> area_cm2,
                 volume_ul |-> volume_ul,
                 eccentricity |-> eccentricity(polygon),
                 ave_dist_to_edge_pix |-> ave_dist,
                 ave_dist_to_edge_cm |->
                     IF ave_dist = NaN THEN NaN ELSE RDiv(ave_dist, pix_per_cm),
                 points |-> polygon]
    IN  IF Len(size_thresh_list) = 3
        THEN [k \in DOMAIN base \cup {"class"} |->
                 IF k = "class" THEN Classify(volume_ul, size_thresh_list)
                 ELSE base[k]]
        ELSE base

\* np.sum(dist_map[spot_mask > 0]) / count: NaN when the polygon covers no
\* pixel
AveDist(dist_map, spot_mask) ==
    IF spot_mask = {} THEN NaN
    ELSE Rat(SumOver(dist_map[1], spot_mask), Cardinality(spot_mask))

PolyMeasures(polygon, area_pix2, area_cm2, ave_dist, volume_mapper, pix_per_cm, size_thresh_list) ==
    PolyRecord(polygon, polygon_mbr(polygon), polygon_perimeter(polygon),
               area_pix2, area_cm2, map_area(volume_mapper, area_cm2),
               ave_dist, pix_per_cm, size_thresh_list)

\* the record of one polygon (paper_mask and dist_map are set, or the polygon
\* covers no pixel)
PolyProps(vp, polygon, volume_mapper, pix_per_cm, size_thresh_list) ==
    PolyMeasures(polygon, polygon_area(polygon),
                 RDiv(polygon_area(polygon), RMul(pix_per_cm, pix_per_cm)),
                 AveDist(vp.dist_map,
                         drawContours(<<polygon_to_contour(polygon)>>)),
                 volume_mapper, pix_per_cm, size_thresh_list)

\* the sort without reverse=True: ascending
RECURSIVE SortByVolumeAscending(_)
SortByVolumeAscending(props) ==
    IF props = <<>> THEN <<>>
    ELSE LET i == CHOOSE j \in DOMAIN props :
                      /\ \A k \in DOMAIN props :
                            ~RLess(props[k].volume_ul, props[j].volume_ul)
                      /\ \A k \in 1..(j - 1) :
                            RLess(props[j].volume_ul, props[k].volume_ul)
         IN  <<props[i]>> \o
             SortByVolumeAscending([k \in 1..(Len(props) - 1) |->
                                       IF k < i THEN props[k] ELSE props[k + 1]])

\* sorted(props, key=volume_ul, reverse=True): descending, records of equal
\* volume keep their order
RECURSIVE SortByVolume(_)
SortByVolume(props) ==
    IF props = <<>> THEN <<>>
    ELSE LET i == CHOOSE j \in DOMAIN props :
                      /\ \A k \in DOMAIN props :
                            ~RLess(props[j].volume_ul, props[k].volume_ul)
                      /\ \A k \in 1..(j - 1) :
                            RLess(props[k].volume_ul, props[j].volume_ul)
         IN  <<props[i]>> \o
             SortByVolume([k \in 1..(Len(props) - 1) |->
                              IF k < i THEN props[k] ELSE props[k + 1]])

\* the loop that adds area_pix2 up to the first record of class 'junk'
RECURSIVE SumUntilJunk(_)
SumUntilJunk(props) ==
    IF props = <<>> THEN RZero
    ELSE IF Head(props).class = "junk" THEN RZero
    ELSE RAdd(Head(props).area_pix2, SumUntilJunk(Tail(props)))

\* the end of measure_spots: the sorted records are stored, and the areas
\* are added up
StoreMeasures(vp, sorted, size_thresh_list) ==
    IF Len(size_thresh_list) # 3
    \* prop['class'] of a record without that key
    THEN [vp |-> [vp EXCEPT !.spot_polygon_properties = sorted],
          area_pix |-> RZero, raised |-> "KeyError"]
    ELSE [vp |-> [vp EXCEPT !.spot_polygon_properties = sorted],
          area_pix |-> SumUntilJunk(sorted), raised |-> ""]

\* [vp, area_pix: the value returned, raised]. pix_per_cm is not zero.
measure_spots(vp, volume_mapper, pix_per_cm, size_thresh_list) ==
    LET cleared == [vp EXCEPT !.spot_polygon_properties = <<>>]
    IN  IF vp.spot_polygons = <<>>
        THEN [vp |-> cleared, area_pix |-> RZero, raised |-> ""]
        ELSE IF vp.paper_mask = None
        \* self.paper_mask.shape of None, in the first pass of the loop
        THEN [vp |-> cleared, area_pix |-> RZero, raised |-> "AttributeError"]
        ELSE IF vp.dist_map = None
                  /\ \E i \in DOMAIN vp.spot_polygons :
                         drawContours(<<polygon_to_contour(
                                            vp.spot_polygons[i])>>) # {}
        \* np.sum over an array that holds None
        THEN [vp |-> cleared, area_pix |-> RZero, raised |-> "TypeError"]
        ELSE StoreMeasures(vp,
                 SortByVolume([i \in DOMAIN vp.spot_polygons |->
                                  PolyProps(vp, vp.spot_polygons[i],
                                            volume_mapper, pix_per_cm,
                                            size_thresh_list)]),
                 size_thresh_list)

(***************************************************************************)
(* State.                                                                  *)
(***************************************************************************)
VARIABLES
    vsa_processor,   \* the VsaProcessor object
    volume_mapper,   \* the AreaVolumeMap object
    vol_cal_points,  \* MainWin.vol_cal_points
    spin,            \* the values of MainWin's spin boxes
    viewer,          \* the viewer: whether it shows an image, and its
                     \* selection rectangle [x, y, w, h]
    calls,           \* the processor calls of the last step, with an argument
    area_pix,        \* what the last measure_spots call returned
    ret,             \* what the last call returned ("True", "False", "None")
    raised           \* the exception that ended the last step, "" when none

vars == <<vsa_processor, volume_mapper, vol_cal_points, spin, viewer, calls,
          area_pix, ret, raised>>

gui_vars == <<vol_cal_points, spin, viewer>>

\* the spin boxes as create_*_groupbox leaves them (a QSpinBox without a
\* setValue starts at its minimum)
NewSpin ==
    [paper_threshold |-> 0,
     min_void_size |-> Rat(1, 10), nano_void_thresh |-> RInt(2),
     micro_void_thresh |-> RInt(22),
     known_length |-> RInt(5), resolution |-> RInt(1),
     known_volume |-> RInt(50),
     spot_threshold_adj |-> 0, min_range |-> 25, min_dist_from_median |-> 10]

NoSelection == <<-1, -1, 0, 0>>

NewViewer == [image |-> FALSE, selection |-> NoSelection]

(***************************************************************************)
(* Inputs of the calls.                                                    *)
(***************************************************************************)
\* paper thresholds: below the background, between background and paper,
\* between paper and stain, above the stain
PaperThresholds == {0, 5, 12, 25}

\* <<threshold_adjustment, min_range, min_dist_from_median>>: every gate open,
\* and the defaults of segment_spots
SpotParams == {<<0, 0, 0>>, <<0, 40, 10>>}

\* regions [x, y, w, h]: around the first stain, on clean paper, and around the
\* second stain and the uncovered column
Rois == {<<0, 0, 2, 2>>, <<1, 0, 2, 1>>, <<ImgW - 2, 0, 2, ImgH>>}

\* a rectangle selection [x, y, w, h] as the polygon of its corners
RectPolygon(x, y, w, h) ==
    <<<<x, y>>, <<x + w, y>>, <<x + w, y + h>>, <<x, y + h>>>>

\* selections: the block around the first stain, and the last two columns
\* (paper and uncovered background)
Selections == {RectPolygon(0, 0, 1, 1), RectPolygon(ImgW - 2, 0, 1, ImgH - 1)}

\* polygon lists given to set_spot_polygons: none, two one-pixel polygons that
\* touch, a rectangle by its corners
PolygonLists ==
    {<<>>, <<<<<<1, 0>>>>, <<<<2, 0>>>>>>, <<RectPolygon(0, 0, 1, 1)>>}

\* the spin boxes' first thresholds [min_void_size, nano, micro]
DefaultSizeThresholds == <<Rat(1, 10), RInt(2), RInt(22)>>

\* calibration models: none yet, and 50 uL per cm2
Mappers == {NewAreaVolumeMap, [c1 |-> RInt(50), c2 |-> RZero]}

(***************************************************************************)
(* The processor driven through its methods.                               *)
(***************************************************************************)
Init ==
    /\ vsa_processor = NewVsaProcessor
    /\ volume_mapper = NewAreaVolumeMap
    /\ vol_cal_points = <<>>
    /\ spin = NewSpin
    /\ viewer = NewViewer
    /\ calls = {}
    /\ area_pix = RZero
    /\ ret = "None"
    /\ raised = ""

Returns(r) ==
    /\ vsa_processor' = r.vp
    /\ ret' = r.ret
    /\ raised' = r.raised
    /\ UNCHANGED <<volume_mapper, area_pix, calls, gui_vars>>

OpenImage == \E f \in Files : Returns(open_image(vsa_processor, f))

SegmentPaper ==
    \E t \in PaperThresholds : Returns(segment_paper(vsa_processor, t))

SegmentSpots ==
    \E prm \in SpotParams, nan_is_set \in BOOLEAN :
        Returns(segment_spots(vsa_processor, prm[1], prm[2], prm[3],
                              nan_is_set))

SegmentSpotsInRoi ==
    \E roi \in Rois, prm \in SpotParams :
        Returns(segment_spots_in_roi(vsa_processor, roi, prm[1], prm[2],
                                     prm[3]))

SaveRoiSpots == Returns(save_roi_spots(vsa_processor))

FillPolySelection ==
    \E poly \in Selections : Returns(fill_poly_selection(vsa_processor, poly))

ClearPolySelection ==
    \E poly \in Selections : Returns(clear_poly_selection(vsa_processor, poly))

SetSpotPolygons ==
    \E polys \in PolygonLists : Returns(set_spot_polygons(vsa_processor, polys))

Next ==
    \/ OpenImage
    \/ SegmentPaper
    \/ SegmentSpots
    \/ SegmentSpotsInRoi
    \/ SaveRoiSpots
    \/ FillPolySelection
    \/ ClearPolySelection
    \/ SetSpotPolygons

Spec == Init /\ [][Next]_vars

(***************************************************************************)
(* Measuring: polygon lists are given to the processor and measured under  *)
(* calibration models, resolutions and threshold lists.                    *)
(***************************************************************************)
PixelPolygon == <<<<1, 1>>>>
TrianglePolygon == <<<<0, 0>>, <<1, 0>>, <<0, 1>>>>
SquarePolygon == RectPolygon(0, 0, 1, 1)
WidePolygon == RectPolygon(0, 0, 2, 1)

\* a square to the right of the image, as a session saved for a wider image
\* holds it: it covers no pixel
OutsidePolygon == RectPolygon(ImgW + 1, 0, 1, 1)

\* areas 0, 1/2, 1 and 2 pixels, in several orders, some of them equal
MeasuredPolygonLists ==
    {<<>>, <<SquarePolygon>>,
     <<TrianglePolygon, WidePolygon>>,
     <<SquarePolygon, PixelPolygon, WidePolygon>>,
     <<PixelPolygon, TrianglePolygon, SquarePolygon>>,
     <<SquarePolygon, PixelPolygon, SquarePolygon>>,
     <<SquarePolygon, OutsidePolygon>>}

\* pixels per cm
Resolutions == {RInt(1), RInt(2)}

\* size_thresh_list: thresholds that separate the volumes measured here,
\* thresholds with equal members, thresholds out of order, and a list that is
\* too short
SizeThreshLists ==
    {<<RInt(10), RInt(30), RInt(60)>>,
     <<RZero, RInt(30), RInt(30)>>,
     <<RInt(30), RInt(10), RInt(60)>>,
     <<RInt(10), RInt(30)>>}

SetMeasuredPolygons ==
    \E polys \in MeasuredPolygonLists :
        Returns(set_spot_polygons(vsa_processor, polys))

MeasureSpots ==
    \E mapper \in Mappers, pix_per_cm \in Resolutions,
       size_thresh_list \in SizeThreshLists :
        LET r == measure_spots(vsa_processor, mapper, pix_per_cm,
                               size_thresh_list)
        IN  /\ vsa_processor' = r.vp
            /\ area_pix' = r.area_pix
            /\ ret' = "float"
            /\ raised' = r.raised
            /\ calls' = {<<"measure_spots", size_thresh_list>>}
            /\ UNCHANGED <<volume_mapper, gui_vars>>

\* the paper segmented at the threshold the program proposes
SegmentPaperAtDefault ==
    Returns(segment_paper(vsa_processor,
                          get_default_paper_threshold(vsa_processor)))

NextMeasure ==
    \/ OpenImage
    \/ SegmentPaperAtDefault
    \/ SetMeasuredPolygons
    \/ MeasureSpots

SpecMeasure == Init /\ [][NextMeasure]_vars

(***************************************************************************)
(* Every method of the processor, called in any order, on a processor      *)
(* without a raster (none opened yet, or the file could not be read) or     *)
(* with a raster that shows no paper.                                       *)
(***************************************************************************)
OpenWithoutPaper ==
    \E f \in {"missing.tif", "black.tif"} :
        Returns(open_image(vsa_processor, f))

GetDefaultPaperThreshold ==
    /\ ret' = ToString(get_default_paper_threshold(vsa_processor))
    /\ raised' = ""
    /\ UNCHANGED <<vsa_processor, volume_mapper, area_pix, calls, gui_vars>>

\* measure_spots before any calibration, with the spin boxes' first values
MeasureUncalibrated ==
    LET r == measure_spots(vsa_processor, NewAreaVolumeMap, RInt(1),
                           DefaultSizeThresholds)
    IN  /\ vsa_processor' = r.vp
        /\ area_pix' = r.area_pix
        /\ ret' = "float"
        /\ raised' = r.raised
        /\ UNCHANGED <<volume_mapper, calls, gui_vars>>

NextGuards ==
    \/ OpenWithoutPaper
    \/ SegmentPaper
    \/ SegmentSpots
    \/ SegmentSpotsInRoi
    \/ SaveRoiSpots
    \/ FillPolySelection
    \/ ClearPolySelection
    \/ SetSpotPolygons
    \/ MeasureUncalibrated
    \/ GetDefaultPaperThreshold

SpecGuards == Init /\ [][NextGuards]_vars

(***************************************************************************)
(* _find_spots_in_rect called on its own, on the images that open_image    *)
(* and segment_paper leave.                                                *)
(***************************************************************************)
\* <<threshold_adjustment, min_range, min_dist_from_median>>
FindParams == {-5, 0, 5} \X {0, 5, 40} \X {0, 10}

FindSpotsInRect ==
    \E roi \in Rois, prm \in FindParams :
        LET r == _find_spots_in_rect(vsa_processor, roi, prm[1], prm[2], prm[3])
        IN  /\ vsa_processor' = r.vp
            /\ ret' = "tuple"
            /\ raised' = r.raised
            /\ calls' = {<<"_find_spots_in_rect", roi, prm, r.polygons,
                           r.roi_mask>>}
            /\ UNCHANGED <<volume_mapper, area_pix, gui_vars>>

NextRoi ==
    \/ OpenImage
    \/ SegmentPaper
    \/ FindSpotsInRect

SpecRoi == Init /\ [][NextRoi]_vars

(***************************************************************************)
(* get_default_paper_threshold on an image whose Otsu and Triangle          *)
(* thresholds are given, in place of the image they are computed from.      *)
(***************************************************************************)
MaxThreshold == 15

GetDefaultOfThresholds ==
    \E thresh_otsu \in 0..MaxThreshold, thresh_triangle \in 0..MaxThreshold :
        /\ ret' = ToString(IF ~have_img(vsa_processor) THEN -1
                           ELSE DefaultThreshold(thresh_otsu, thresh_triangle))
        /\ raised' = ""
        /\ calls' = {<<"get_default_paper_threshold", thresh_otsu,
                       thresh_triangle>>}
        /\ UNCHANGED <<vsa_processor, volume_mapper, area_pix, gui_vars>>

\* open_image, forgetting the thresholds of the image before
OpenAnotherImage ==
    \E f \in Files :
        LET r == open_image(vsa_processor, f)
        IN  /\ vsa_processor' = r.vp
            /\ ret' = r.ret
            /\ raised' = r.raised
            /\ calls' = {}
            /\ UNCHANGED <<volume_mapper, area_pix, gui_vars>>

NextWeights ==
    \/ OpenAnotherImage
    \/ GetDefaultOfThresholds

SpecWeights == Init /\ [][NextWeights]_vars

(***************************************************************************)
(* polygon_area called on point lists that grow by one point, a point      *)
(* already in the list included (the repeated closing point).              *)
(***************************************************************************)
MaxPolyLen == 4

PolyPoints == (0..1) \X (0..2)

\* the list of the last call (the empty list before any call)
AreaList == IF calls = {} THEN <<>> ELSE (CHOOSE c \in calls : TRUE)[2]

AreaWithPoint ==
    /\ Len(AreaList) < MaxPolyLen
    /\ \E p \in PolyPoints :
          /\ calls' = {<<"polygon_area", Append(AreaList, p)>>}
          /\ area_pix' = polygon_area(Append(AreaList, p))
          /\ ret' = "float"
          /\ raised' = ""
          /\ UNCHANGED <<vsa_processor, volume_mapper, gui_vars>>

NextArea == AreaWithPoint

SpecArea == Init /\ [][NextArea]_vars

(***************************************************************************)
(* circularity, polygon_area and polygon_perimeter called on axis-aligned  *)
(* squares and on paths that run out and back.                             *)
(***************************************************************************)
MaxSide == 3

\* the corners of the square of side s at (x, y), from corner k, in either
\* direction
SquareCorners(x, y, s, k, clockwise) ==
    LET corners == IF clockwise THEN Reverse(RectPolygon(x, y, s, s))
                   ELSE RectPolygon(x, y, s, s)
    IN  SubSeq(corners, k + 1, 4) \o SubSeq(corners, 1, k)

\* a path followed by the same path in reverse, ending at its first vertex
OutAndBack(path) == path \o Tail(Reverse(path))

Shape(polygon) ==
    /\ calls' = {<<"circularity", polygon, circularity(polygon)>>}
    /\ area_pix' = polygon_area(polygon)
    /\ ret' = "float"
    /\ raised' = ""
    /\ UNCHANGED <<vsa_processor, volume_mapper, gui_vars>>

CircularityOfSquare ==
    \E x \in 0..2, y \in 0..2, s \in 1..MaxSide, k \in 0..3,
       clockwise \in BOOLEAN :
        Shape(SquareCorners(x, y, s, k, clockwise))

CircularityOfOutAndBack ==
    \E a \in PolyPoints, b \in PolyPoints, c \in PolyPoints, n \in 1..3 :
        Shape(OutAndBack(SubSeq(<<a, b, c>>, 1, n)))

NextShape ==
    \/ CircularityOfSquare
    \/ CircularityOfOutAndBack

SpecShape == Init /\ [][NextShape]_vars

(***************************************************************************)
(* largest_polygon called on lists of polygons that grow by one polygon.   *)
(***************************************************************************)
MaxPolygons == 3

\* polygons of the areas 0, 1/2, 1 and 2, the last in both directions
AreaPolygons ==
    {PixelPolygon, TrianglePolygon, SquarePolygon, WidePolygon,
     Reverse(WidePolygon)}

\* the list of the last call (the empty list before any call)
PolygonList == IF calls = {} THEN <<>> ELSE (CHOOSE c \in calls : TRUE)[2]

LargestWithPolygon ==
    /\ Len(PolygonList) < MaxPolygons
    /\ \E polygon \in AreaPolygons :
          /\ calls' = {<<"largest_polygon", Append(PolygonList, polygon)>>}
          /\ ret' = ToString(largest_polygon(Append(PolygonList, polygon)))
          /\ raised' = ""
          /\ UNCHANGED <<vsa_processor, volume_mapper, area_pix, gui_vars>>

LargestOfNone ==
    /\ calls' = {<<"largest_polygon", <<>>>>}
    /\ ret' = ToString(largest_polygon(<<>>))
    /\ raised' = ""
    /\ UNCHANGED <<vsa_processor, volume_mapper, area_pix, gui_vars>>

NextLargest ==
    \/ LargestWithPolygon
    \/ LargestOfNone

SpecLargest == Init /\ [][NextLargest]_vars

(***************************************************************************)
(* The tiles of segment_spots for images and windows of several sizes.     *)
(***************************************************************************)
MaxWidth == 6
MaxHeight == 5
MaxWin == 7

BuildTiles ==
    \E w \in 1..MaxWidth, h \in 1..MaxHeight, win_size \in 1..MaxWin :
        /\ calls' = {<<"tiles", w, h, win_size, Tiles(w, h, win_size)>>}
        /\ ret' = "None"
        /\ raised' = ""
        /\ UNCHANGED <<vsa_processor, volume_mapper, area_pix, gui_vars>>

NextTiles == BuildTiles

SpecTiles == Init /\ [][NextTiles]_vars

(***************************************************************************)
(* Probing and committing. calls holds the last call that segmented or     *)
(* reset (open_image, segment_spots, segment_spots_in_roi with whether it  *)
(* accepted its region) and, right after save_roi_spots, the spot_mask and *)
(* the candidate that call found.                                          *)
(***************************************************************************)
LastSegmentation == {c \in calls : c[1] = "segmentation"}

CommitOpenImage ==
    \E f \in Files :
        LET r == open_image(vsa_processor, f)
        IN  /\ vsa_processor' = r.vp
            /\ ret' = r.ret
            /\ raised' = r.raised
            /\ calls' = {<<"segmentation", "open_image">>}
            /\ UNCHANGED <<volume_mapper, area_pix, gui_vars>>

CommitSegmentPaper ==
    \E t \in PaperThresholds :
        LET r == segment_paper(vsa_processor, t)
        IN  /\ vsa_processor' = r.vp
            /\ ret' = r.ret
            /\ raised' = r.raised
            /\ calls' = LastSegmentation
            /\ UNCHANGED <<volume_mapper, area_pix, gui_vars>>

CommitSegmentSpots ==
    \E prm \in SpotParams, nan_is_set \in BOOLEAN :
        LET r == segment_spots(vsa_processor, prm[1], prm[2], prm[3],
                               nan_is_set)
        IN  /\ vsa_processor' = r.vp
            /\ ret' = r.ret
            /\ raised' = r.raised
            /\ calls' = {<<"segmentation", "segment_spots">>}
            /\ UNCHANGED <<volume_mapper, area_pix, gui_vars>>

\* the probe accepted its region when it left a mask
CommitProbe ==
    \E roi \in Rois, prm \in SpotParams :
        LET r == segment_spots_in_roi(vsa_processor, roi, prm[1], prm[2],
                                      prm[3])
        IN  /\ vsa_processor' = r.vp
            /\ ret' = r.ret
            /\ raised' = r.raised
            /\ calls' = {<<"segmentation",
                           IF r.raised = "" /\ r.vp.roi_mask # None
                           THEN "accepted" ELSE "rejected">>}
            /\ UNCHANGED <<volume_mapper, area_pix, gui_vars>>

CommitSave ==
    LET r == save_roi_spots(vsa_processor)
    IN  /\ vsa_processor' = r.vp
        /\ ret' = r.ret
        /\ raised' = r.raised
        /\ calls' = LastSegmentation
                       \cup {<<"save_roi_spots", vsa_processor.spot_mask,
                                vsa_processor.roi_polygons>>}
        /\ UNCHANGED <<volume_mapper, area_pix, gui_vars>>

NextCommit ==
    \/ CommitOpenImage
    \/ CommitSegmentPaper
    \/ CommitSegmentSpots
    \/ CommitProbe
    \/ CommitSave

SpecCommit == Init /\ [][NextCommit]_vars

(***************************************************************************)
(* extend_image on a paper image with one speck and a paper mask that is a *)
(* band of columns. segment_paper fills its largest contour, so a speck    *)
(* enclosed by paper lies in the mask; the rasters here are too small for  *)
(* a contour to enclose a pixel, and the image and the mask are given.     *)
(***************************************************************************)
\* the paper image with pixel q set to v
SpeckImage(q, v) == [p \in Pixels |-> IF p = q THEN v ELSE PaperImage[p]]

\* the columns x to x + w - 1
ColumnBand(x, w) == RectPixels(<<x, 0, w, ImgH>>)

ExtendImage ==
    \E q \in Pixels, v \in {Intensity.black, 4, 12},
       x \in 0..(ImgW - 1), w \in 1..ImgW :
        /\ x + w <= ImgW
        /\ vsa_processor' =
              extend_image([NewVsaProcessor EXCEPT
                               !.image_file = "speck.tif",
                               !.img = Some(SpeckImage(q, v)),
                               !.spot_mask = Some({}),
                               !.paper_mask = Some(ColumnBand(x, w))])
        /\ calls' = {<<"extend_image">>}
        /\ ret' = "None"
        /\ raised' = ""
        /\ UNCHANGED <<volume_mapper, area_pix, gui_vars>>

NextExtend == ExtendImage

SpecExtend == Init /\ [][NextExtend]_vars

(***************************************************************************)
(* smooth_polygon called on selection polygons that grow by one vertex.    *)
(***************************************************************************)
MaxVertices == 5

\* vertices three pixels apart
SmoothPoints == {0, 3} \X {0, 3}

\* the polygon given to the last call (the empty list before any call)
SelectionPolyPoints ==
    IF calls = {} THEN <<>> ELSE (CHOOSE c \in calls : TRUE)[2]

SmoothWithVertex ==
    /\ Len(SelectionPolyPoints) < MaxVertices
    /\ \E p \in SmoothPoints :
          /\ calls' = {<<"smooth_polygon", Append(SelectionPolyPoints, p),
                         smooth_polygon(Append(SelectionPolyPoints, p))>>}
          /\ ret' = "None"
          /\ raised' = ""
          /\ UNCHANGED <<vsa_processor, volume_mapper, area_pix, gui_vars>>

NextSmooth == SmoothWithVertex

SpecSmooth == Init /\ [][NextSmooth]_vars

(***************************************************************************)
(* AreaVolumeMap.compute_model called with lists of (area, volume) points: *)
(* a list grows by a point, loses its last point, or is empty.              *)
(***************************************************************************)
\* a point of area 0, points on V = A, V = 2A and V = A^2
FitPoints ==
    {<<RInt(0), RInt(5)>>, <<RInt(1), RInt(1)>>, <<RInt(1), RInt(2)>>,
     <<RInt(2), RInt(4)>>, <<RInt(3), RInt(9)>>, <<RInt(4), RInt(16)>>}

Fit(points) ==
    LET r == compute_model(volume_mapper, points)
    IN  /\ volume_mapper' = r.volume_mapper
        /\ vol_cal_points' = points
        /\ ret' = r.ret
        /\ raised' = r.raised
        /\ calls' = {<<"compute_model">>}
        /\ UNCHANGED <<vsa_processor, area_pix, spin, viewer>>

FitWithPoint ==
    /\ Len(vol_cal_points) < MaxCalPoints
    /\ \E p \in FitPoints : Fit(Append(vol_cal_points, p))

FitWithoutLast ==
    /\ vol_cal_points # <<>>
    /\ Fit(SubSeq(vol_cal_points, 1, Len(vol_cal_points) - 1))

FitNone == Fit(<<>>)

NextFit ==
    \/ FitWithPoint
    \/ FitWithoutLast
    \/ FitNone

SpecFit == Init /\ [][NextFit]_vars

(***************************************************************************)
(* MainWin (vsa_gui.py). A handler works on the record of the window's     *)
(* objects: the processor, the mapper, the calibration points, the spin    *)
(* boxes and the viewer. `calls` collects the processor calls the handler  *)
(* makes; once a call has raised, the rest of the handler is skipped.      *)
(***************************************************************************)
MainWin ==
    [vsa_processor |-> vsa_processor, volume_mapper |-> volume_mapper,
     vol_cal_points |-> vol_cal_points, spin |-> spin, viewer |-> viewer,
     area_pix |-> area_pix, calls |-> {}, raised |-> ""]

\* the ranges of the spin boxes: whole numbers (QSpinBox) and fractions
\* (QDoubleSpinBox)
SpinRange ==
    [paper_threshold |-> <<0, 255>>, spot_threshold_adj |-> <<-99, 99>>,
     min_range |-> <<1, 255>>, min_dist_from_median |-> <<0, 200>>]

DoubleSpinRange ==
    [micro_void_thresh |-> <<RZero, RInt(100)>>,
     nano_void_thresh |-> <<RZero, RInt(25)>>,
     min_void_size |-> <<RZero, RInt(5)>>,
     known_length |-> <<Rat(1, 4), RInt(25)>>,
     resolution |-> <<Rat(1, 10), RInt(1000)>>,
     known_volume |-> <<Rat(1, 1000), RInt(1000)>>]

\* the value rounded to two decimals
Round2(v) == Rat((200 * v.n + v.d) \div (2 * v.d), 100)

RClamp(v, lo, hi) == IF RLess(v, lo) THEN lo ELSE IF RLess(hi, v) THEN hi ELSE v

\* the window after a processor call that returned m = [vp, area_pix, raised]
AfterMeasure(win, size_thresh_list, m) ==
    [win EXCEPT !.vsa_processor = m.vp, !.area_pix = m.area_pix,
                !.calls = @ \cup {<<"measure_spots", size_thresh_list>>},
                !.raised = m.raised]

\* self.vsa_processor.measure_spots(self.volume_mapper,
\*     self.spinbox_resolution.value(), size_thresh_list)
MeasureWith(win, size_thresh_list) ==
    IF win.raised # "" THEN win
    ELSE AfterMeasure(win, size_thresh_list,
                      measure_spots(win.vsa_processor, win.volume_mapper,
                                    win.spin.resolution, size_thresh_list))

update_measurements(win) ==
    MeasureWith(win, <<win.spin.min_void_size, win.spin.nano_void_thresh,
                       win.spin.micro_void_thresh>>)

\* the window after a processor call that returned r = [vp, ret, raised]
Called(win, r) == [win EXCEPT !.vsa_processor = r.vp, !.raised = r.raised]

\* generate_paper_mask after its segment_paper call returned r
PaperSegmented(win, r) ==
    IF r.raised # "" \/ r.ret = "False" THEN Called(win, r)
    ELSE update_measurements(Called(win, r))

generate_paper_mask(win) ==
    IF win.raised # "" THEN win
    ELSE PaperSegmented(
             [win EXCEPT !.calls = @ \cup {<<"segment_paper",
                                             win.spin.paper_threshold>>}],
             segment_paper(win.vsa_processor, win.spin.paper_threshold))

\* the spin box holds no value below 0
paper_threshold_change(win) ==
    IF win.raised # "" THEN win
    ELSE IF win.vsa_processor.paper_mask # None THEN generate_paper_mask(win)
    ELSE win

\* the rectangle identify_voids works on: get_selection_rect hands out the
\* viewer's own list, which is changed in place
MovedSelection(sel) ==
    <<IF sel[1] < 0 THEN 0 ELSE sel[1],
      IF sel[2] < 0 THEN 0 ELSE sel[2],
      IF sel[1] < 0 THEN sel[3] + sel[1] ELSE sel[3],
      IF sel[2] < 0 THEN sel[4] + sel[2] ELSE sel[4]>>

\* identify_voids with the moved rectangle in the viewer
IdentifyIn(win, selection, nan_is_set) ==
    IF selection[1] < 0 \/ selection[2] < 0
       \/ selection[3] <= 0 \/ selection[4] <= 0
    THEN update_measurements(
             Called(win, segment_spots(win.vsa_processor,
                                       win.spin.spot_threshold_adj,
                                       win.spin.min_range,
                                       win.spin.min_dist_from_median,
                                       nan_is_set)))
    ELSE Called(win, segment_spots_in_roi(win.vsa_processor, selection,
                                          win.spin.spot_threshold_adj,
                                          win.spin.min_range,
                                          win.spin.min_dist_from_median))

identify_voids(win, nan_is_set) ==
    IF win.raised # "" THEN win
    ELSE IdentifyIn([win EXCEPT !.viewer.selection = MovedSelection(@)],
                    MovedSelection(win.viewer.selection), nan_is_set)

\* spot_thresh_adj_change and spot_range_change have the same body
spot_range_change(win, nan_is_set) ==
    IF win.raised # "" THEN win
    ELSE IF win.viewer.selection[3] > 0 /\ win.viewer.selection[4] > 0
    THEN identify_voids(win, nan_is_set)
    ELSE win

\* what a spin box holds after setValue(value): the value brought into the
\* box's range; a QDoubleSpinBox keeps two decimals
Held(box, value) ==
    IF box \in DOMAIN SpinRange
    THEN Clamp(value, SpinRange[box][1], SpinRange[box][2])
    ELSE RClamp(Round2(value), DoubleSpinRange[box][1],
                DoubleSpinRange[box][2])

\* the slot connected to the box's valueChanged signal
valueChanged(win, box, nan_is_set) ==
    CASE box = "paper_threshold" -> paper_threshold_change(win)
      [] box \in {"spot_threshold_adj", "min_range", "min_dist_from_median"} ->
             spot_range_change(win, nan_is_set)
      [] box \in {"micro_void_thresh", "nano_void_thresh", "min_void_size",
                  "resolution"} -> update_measurements(win)
      [] OTHER -> win

\* setValue: valueChanged is emitted when the box's value changes
setValue(win, box, value, nan_is_set) ==
    IF win.raised # "" \/ Held(box, value) = win.spin[box] THEN win
    ELSE valueChanged([win EXCEPT !.spin[box] = Held(box, value)], box,
                      nan_is_set)

reset_paper_threshold(win) ==
    setValue(win, "paper_threshold",
             get_default_paper_threshold(win.vsa_processor), FALSE)

\* MainWin.open_image after the processor's open_image returned r
ImageOpened(win, r) ==
    IF r.ret = "False" THEN [win EXCEPT !.vsa_processor = r.vp]
    ELSE generate_paper_mask(
             \* viewer.set_image
             [setValue([win EXCEPT !.vsa_processor = r.vp], "paper_threshold",
                       get_default_paper_threshold(r.vp), FALSE)
                 EXCEPT !.viewer = [image |-> TRUE,
                                    selection |-> NoSelection]])

\* MainWin.open_image, with self.pathname = pathname
MainWin_open_image(win, pathname) ==
    IF win.raised # "" THEN win
    ELSE ImageOpened(win, open_image(win.vsa_processor, pathname))

\* the rectangle as a polygon, or no polygon without a rectangle
get_selection(selection) ==
    IF selection[3] > 0 /\ selection[4] > 0
    THEN RectPolygon(selection[1], selection[2], selection[3], selection[4])
    ELSE <<>>

clear_selection_annotation(win) ==
    IF win.raised # "" THEN win
    ELSE [win EXCEPT !.viewer.selection = NoSelection]

clear_selection(win) ==
    IF Len(get_selection(win.viewer.selection)) < 3 THEN win
    ELSE clear_selection_annotation(update_measurements(
             [win EXCEPT !.vsa_processor =
                 clear_poly_selection(
                     @, get_selection(win.viewer.selection)).vp]))

fill_selection(win) ==
    IF Len(get_selection(win.viewer.selection)) < 3 THEN win
    ELSE clear_selection_annotation(update_measurements(
             [win EXCEPT !.vsa_processor =
                 fill_poly_selection(
                     @, get_selection(win.viewer.selection)).vp]))

add_void_spots_to_list(win) ==
    update_measurements(
        [win EXCEPT !.vsa_processor = save_roi_spots(@).vp])

\* the window after compute_model returned fit
Fitted(win, fit) ==
    [win EXCEPT !.volume_mapper = fit.volume_mapper, !.raised = fit.raised]

\* self.volume_mapper.compute_model(self.vol_cal_points)
ComputeModel(win) ==
    IF win.raised # "" THEN win
    ELSE Fitted(win, compute_model(win.volume_mapper, win.vol_cal_points))

\* calibrate_volume_per_pixel after its measure_spots call
AddPoint(measured) ==
    IF measured.raised # "" THEN measured
    ELSE update_measurements(ComputeModel(
             [measured EXCEPT !.vol_cal_points =
                 Append(@, <<RDiv(measured.area_pix,
                                  RMul(measured.spin.resolution,
                                       measured.spin.resolution)),
                             measured.spin.known_volume>>)]))

calibrate_volume_per_pixel(win) ==
    IF Len(win.vsa_processor.spot_polygons) <= 0 THEN win
    ELSE AddPoint(MeasureWith(win, <<win.spin.min_void_size,
                                     win.spin.nano_void_thresh,
                                     win.spin.micro_void_thresh>>))

calibrate_volume_per_pixel_del(win) ==
    IF Len(win.vol_cal_points) <= 0 THEN win
    ELSE update_measurements(update_measurements(ComputeModel(
             [win EXCEPT !.vol_cal_points = SubSeq(@, 1, Len(@) - 1)])))

\* the points of a calibration or session file become the list, and the
\* model is computed (a file without the key changes nothing)
LoadPoints(win, json_dict) ==
    IF win.raised # "" \/ "volume_calibration_data" \notin DOMAIN json_dict
    THEN win
    ELSE ComputeModel([win EXCEPT !.vol_cal_points =
                          json_dict.volume_calibration_data])

\* the file's content as a record json_dict; a key the file lacks is not in
\* its DOMAIN
LoadResolution(win, json_dict) ==
    IF "pixels_per_cm" \in DOMAIN json_dict
    THEN setValue(win, "resolution", json_dict.pixels_per_cm, FALSE)
    ELSE win

load_calibration(win, json_dict) ==
    IF "volume_calibration_data" \in DOMAIN json_dict
    THEN update_measurements(LoadPoints(LoadResolution(win, json_dict),
                                        json_dict))
    ELSE LoadResolution(win, json_dict)

\* os.path.isfile(pathname)
isfile(pathname) == pathname # "missing.tif"

LoadImage(win, json_dict) ==
    IF "image_pathname" \in DOMAIN json_dict
       /\ isfile(json_dict.image_pathname)
    THEN MainWin_open_image(win, json_dict.image_pathname)
    ELSE win

\* the spin boxes load_session sets, in its order, with the key of each
SessionSpinKeys ==
    <<<<"micro_void_threshold", "micro_void_thresh">>,
      <<"nano_void_threshold", "nano_void_thresh">>,
      <<"min_void_size", "min_void_size">>,
      <<"paper_threshold", "paper_threshold">>,
      <<"spot_seg_thresh_adj", "spot_threshold_adj">>,
      <<"spot_seg_min_range", "min_range">>,
      <<"spot_seg_median_deviation", "min_dist_from_median">>,
      <<"cal_obj_length", "known_length">>,
      <<"cal_pix_per_cm", "resolution">>,
      <<"cal_known_vol", "known_volume">>>>

\* the setValue calls of load_session from the k-th key on
RECURSIVE LoadSpinBoxes(_, _, _, _)
LoadSpinBoxes(win, json_dict, k, nan_is_set) ==
    IF k > Len(SessionSpinKeys) THEN win
    ELSE LoadSpinBoxes(
             IF SessionSpinKeys[k][1] \notin DOMAIN json_dict THEN win
             ELSE setValue(win, SessionSpinKeys[k][2],
                           json_dict[SessionSpinKeys[k][1]], nan_is_set),
             json_dict, k + 1, nan_is_set)

\* set_spot_polygons and the measure_spots call of load_session, whose third
\* threshold is the value of the resolution box
LoadPolygons(win, json_dict) ==
    IF win.raised # "" \/ "spot_polygons" \notin DOMAIN json_dict THEN win
    ELSE MeasureWith([win EXCEPT !.vsa_processor =
                         set_spot_polygons(@, json_dict.spot_polygons).vp],
                     <<win.spin.min_void_size, win.spin.nano_void_thresh,
                       win.spin.resolution>>)

load_session(win, json_dict, nan_is_set) ==
    update_measurements(
        LoadPolygons(
            LoadPoints(
                LoadSpinBoxes(LoadImage(win, json_dict), json_dict, 1,
                              nan_is_set),
                json_dict),
            json_dict))

\* the viewer's mouseReleaseEvent in rectangle mode, the drag from (x, y) to
\* (x + w, y + h) inside the image
mouseReleaseEvent(win, rect) ==
    IF ~win.viewer.image THEN win
    ELSE [win EXCEPT !.viewer.selection = rect]

(***************************************************************************)
(* The window driven by the user. An exception that leaves a slot ends the *)
(* process (main installs no excepthook), so no handler runs after one.    *)
(***************************************************************************)
\* threshold values typed into the paper-threshold box
GuiPaperThresholds == {0, 12}

\* values typed into the three classification boxes
VoidThresholdEdits ==
    [min_void_size |-> {RZero, Rat(1, 10)},
     nano_void_thresh |-> {RZero, RInt(2)},
     micro_void_thresh |-> {RInt(1), RInt(22)}]

\* values typed into the boxes of the spot segmentation
SpotParameterEdits ==
    [spot_threshold_adj |-> {0}, min_range |-> {1, 25},
     min_dist_from_median |-> {0, 10}]

\* rectangles dragged in the viewer: x + w and y + h stay inside the image
GuiSelections == {<<0, 0, 1, 1>>, <<ImgW - 2, 0, 1, ImgH - 1>>}

\* the calibration point of a stain of 1 cm2 holding the default volume
UnitPoint == <<RInt(1), RInt(50)>>

\* calibration files: a resolution, and two points
CalibrationFiles ==
    {[pixels_per_cm |-> RInt(2)],
     [volume_calibration_data |-> <<UnitPoint, UnitPoint>>]}

\* session files: one with polygons only, and one that names an image and
\* sets thresholds, a point and polygons
Sessions ==
    {[spot_polygons |-> <<RectPolygon(0, 0, 1, 1)>>],
     [image_pathname |-> "paper.tif", nano_void_threshold |-> RInt(1),
      paper_threshold |-> 5,
      volume_calibration_data |-> <<UnitPoint>>,
      spot_polygons |-> <<RectPolygon(0, 0, 1, 1)>>]}

\* the handler has run: what it leaves is the next state
Shows(handled) ==
    \E win \in {handled} :
        /\ vsa_processor' = win.vsa_processor
        /\ volume_mapper' = win.volume_mapper
        /\ vol_cal_points' = win.vol_cal_points
        /\ spin' = win.spin
        /\ viewer' = win.viewer
        /\ area_pix' = win.area_pix
        /\ calls' = win.calls
        /\ raised' = win.raised
        /\ ret' = "None"

ActionOpenImage ==
    /\ raised = ""
    /\ \E pathname \in Files : Shows(MainWin_open_image(MainWin, pathname))

EditPaperThreshold ==
    /\ raised = ""
    /\ \E v \in GuiPaperThresholds :
           Shows(setValue(MainWin, "paper_threshold", v, FALSE))

ResetPaperThreshold ==
    /\ raised = ""
    /\ Shows(reset_paper_threshold(MainWin))

EditMinVoidSize ==
    /\ raised = ""
    /\ \E v \in VoidThresholdEdits.min_void_size :
           Shows(setValue(MainWin, "min_void_size", v, FALSE))

EditNanoVoidThresh ==
    /\ raised = ""
    /\ \E v \in VoidThresholdEdits.nano_void_thresh :
           Shows(setValue(MainWin, "nano_void_thresh", v, FALSE))

EditMicroVoidThresh ==
    /\ raised = ""
    /\ \E v \in VoidThresholdEdits.micro_void_thresh :
           Shows(setValue(MainWin, "micro_void_thresh", v, FALSE))

EditResolution ==
    /\ raised = ""
    /\ \E v \in Resolutions : Shows(setValue(MainWin, "resolution", v, FALSE))

EditSpotParameter ==
    /\ raised = ""
    /\ \E box \in DOMAIN SpotParameterEdits :
           \E v \in SpotParameterEdits[box] :
               \E nan_is_set \in BOOLEAN :
                   Shows(setValue(MainWin, box, v, nan_is_set))

Select ==
    /\ raised = ""
    /\ \E rect \in GuiSelections : Shows(mouseReleaseEvent(MainWin, rect))

IdentifyVoids ==
    /\ raised = ""
    /\ \E nan_is_set \in BOOLEAN : Shows(identify_voids(MainWin, nan_is_set))

AddVoidSpotsToList ==
    /\ raised = ""
    /\ Shows(add_void_spots_to_list(MainWin))

FillSelection ==
    /\ raised = ""
    /\ Shows(fill_selection(MainWin))

ClearSelection ==
    /\ raised = ""
    /\ Shows(clear_selection(MainWin))

CalibrateVolumePerPixel ==
    /\ raised = ""
    /\ Len(vol_cal_points) < MaxCalPoints
    /\ Shows(calibrate_volume_per_pixel(MainWin))

CalibrateVolumePerPixelDel ==
    /\ raised = ""
    /\ Shows(calibrate_volume_per_pixel_del(MainWin))

LoadCalibration ==
    /\ raised = ""
    /\ \E json_dict \in CalibrationFiles :
           Shows(load_calibration(MainWin, json_dict))

LoadSession ==
    /\ raised = ""
    /\ \E json_dict \in Sessions :
           \E nan_is_set \in BOOLEAN :
               Shows(load_session(MainWin, json_dict, nan_is_set))

\* the paper threshold: images, the threshold box, selections filled and
\* cleared, sessions
NextPaper ==
    \/ ActionOpenImage
    \/ EditPaperThreshold
    \/ ResetPaperThreshold
    \/ Select
    \/ FillSelection
    \/ ClearSelection
    \/ LoadSession

SpecPaper == Init /\ [][NextPaper]_vars

\* the classification thresholds and the resolution
NextThresholds ==
    \/ ActionOpenImage
    \/ EditMinVoidSize
    \/ EditNanoVoidThresh
    \/ EditMicroVoidThresh
    \/ EditResolution
    \/ Select
    \/ FillSelection
    \/ LoadSession

SpecThresholds == Init /\ [][NextThresholds]_vars

\* the calibration of the area-to-volume model
NextCalibration ==
    \/ ActionOpenImage
    \/ EditMinVoidSize
    \/ Select
    \/ FillSelection
    \/ CalibrateVolumePerPixel
    \/ CalibrateVolumePerPixelDel
    \/ LoadCalibration

SpecCalibration == Init /\ [][NextCalibration]_vars

\* the identification of spots
NextSpots ==
    \/ ActionOpenImage
    \/ EditSpotParameter
    \/ Select
    \/ IdentifyVoids
    \/ AddVoidSpotsToList

SpecSpots == Init /\ [][NextSpots]_vars

(***************************************************************************)
(* Filling and clearing one selection: the mask before the fill is kept in *)
(* `calls` as <<stage, polygon, mask before the fill>>.                    *)
(***************************************************************************)
Filled == \E c \in calls : c[1] = "filled"

FillRecorded ==
    /\ have_img(vsa_processor)
    /\ ~Filled
    /\ \E poly \in Selections :
        LET r == fill_poly_selection(vsa_processor, poly)
        IN  /\ vsa_processor' = r.vp
            /\ ret' = r.ret
            /\ raised' = r.raised
            /\ calls' = {<<"filled", poly, vsa_processor.spot_mask[1]>>}
            /\ UNCHANGED <<volume_mapper, area_pix, gui_vars>>

ClearFilled ==
    \E c \in calls :
        /\ c[1] = "filled"
        /\ LET r == clear_poly_selection(vsa_processor, c[2])
           IN  /\ vsa_processor' = r.vp
               /\ ret' = r.ret
               /\ raised' = r.raised
               /\ calls' = {<<"cleared", c[2], c[3]>>}
               /\ UNCHANGED <<volume_mapper, area_pix, gui_vars>>

\* a mask is prepared while no fill is recorded
PrepareMask ==
    /\ calls = {}
    /\ \/ OpenImage
       \/ SegmentPaperAtDefault
       \/ SegmentSpots
       \/ SetSpotPolygons

NextFillClear ==
    \/ PrepareMask
    \/ FillRecorded
    \/ ClearFilled

SpecFillClear == Init /\ [][NextFillClear]_vars

(***************************************************************************)
(* Properties.                                                             *)
(***************************************************************************)
\* the pixels a polygon selection covers
Region(polygon) == drawContours(<<polygon_to_contour(polygon)>>)

\* C1: whenever there is a spot mask, spot_polygons is the external-contour
\* vectorization of that mask
C1_PolygonsVectorizeMask ==
    vsa_processor.spot_mask # None =>
        vsa_processor.spot_polygons
            = _vectorize_spots(vsa_processor).spot_polygons

\* C2: with a paper mask, every foreground pixel of spot_mask is a foreground
\* pixel of paper_mask
C2_SpotsWithinPaper ==
    (vsa_processor.paper_mask # None /\ vsa_processor.spot_mask # None) =>
        vsa_processor.spot_mask[1] \subseteq vsa_processor.paper_mask[1]

\* C3: in a state with an image loaded, a step that changes the value of the
\* paper-threshold box runs segment_paper with the new value
C3_ThresholdChangeSegments ==
    [][(/\ have_img(vsa_processor)
        /\ have_img(vsa_processor')
        /\ spin'.paper_threshold # spin.paper_threshold)
           => <<"segment_paper", spin'.paper_threshold>> \in calls']_vars

\* the sum of f over the calibration points
PointSum(points, f(_)) == RSumSeq([i \in DOMAIN points |-> f(points[i])])

\* (c1, c2) is the least-squares fit V = c2*A^2 + c1*A of the points: the
\* model of no point is (0, 0), up to three points are fitted by a line
\* through the origin, and the derivatives of the squared error vanish
IsFit(mapper, points) ==
    LET XX(q) == RMul(q[1], q[1])
        XXX(q) == RMul(XX(q), q[1])
        XXXX(q) == RMul(XX(q), XX(q))
        XY(q) == RMul(q[1], q[2])
        XXY(q) == RMul(XX(q), q[2])
    IN  IF points = <<>> THEN mapper.c1 = RZero /\ mapper.c2 = RZero
        ELSE IF Len(points) <= 3
        THEN /\ mapper.c2 = RZero
             /\ RMul(mapper.c1, PointSum(points, XX)) = PointSum(points, XY)
        ELSE /\ RAdd(RMul(mapper.c1, PointSum(points, XX)),
                     RMul(mapper.c2, PointSum(points, XXX)))
                    = PointSum(points, XY)
             /\ RAdd(RMul(mapper.c1, PointSum(points, XXX)),
                     RMul(mapper.c2, PointSum(points, XXXX)))
                    = PointSum(points, XXY)

\* C4: the coefficients held by volume_mapper are the fit of the current
\* vol_cal_points list
C4_ModelFitsPoints == IsFit(volume_mapper, vol_cal_points)

\* C5: a step of segment_spots_in_roi changes no field of the processor other
\* than roi, roi_mask and roi_polygons; spot_mask and spot_polygons stay
C5_RoiProbeKeepsSpots ==
    [][SegmentSpotsInRoi =>
         \A f \in DOMAIN vsa_processor \ {"roi", "roi_mask", "roi_polygons"} :
             vsa_processor'[f] = vsa_processor[f]]_vars

\* C5: a probe has accepted a region whose candidate is not part of the spot
\* mask
C5_Witness ==
    /\ vsa_processor.roi_polygons # <<>>
    /\ vsa_processor.roi_mask # None
    /\ ~(vsa_processor.roi_mask[1] \subseteq vsa_processor.spot_mask[1])

\* C6 as stated: after fill_poly_selection(polygon) and then
\* clear_poly_selection(polygon), every pixel inside the polygon's region has
\* the value it had before the fill
C6_FillThenClearRestores ==
    \A c \in calls :
        c[1] = "cleared" =>
            \A p \in Region(c[2]) :
                (p \in vsa_processor.spot_mask[1]) <=> (p \in c[3])

\* C6 amended: after the fill and the clear of the same polygon every pixel
\* inside the polygon's region is background, and every pixel outside it has
\* the value it had before the fill
C6_FillThenClearEmpties ==
    \A c \in calls :
        c[1] = "cleared" =>
            vsa_processor.spot_mask[1] = c[3] \ Region(c[2])

\* C6: a selection was filled and cleared whose region held foreground before
C6_Witness ==
    \E c \in calls : c[1] = "cleared" /\ c[3] \cap Region(c[2]) # {}

\* the fields of the per-spot measurement record
RecordFields ==
    {"class", "img_x", "img_y", "img_w", "img_h", "perimeter_cm", "area_cm2",
     "volume_ul", "circularity", "ave_dist_to_edge_cm", "points"}

\* C7: every record of spot_polygon_properties carries every field of the
\* per-spot measurement record
C7_RecordsCarryAllFields ==
    \A i \in DOMAIN vsa_processor.spot_polygon_properties :
        RecordFields \subseteq DOMAIN vsa_processor.spot_polygon_properties[i]

\* measure_spots was the last call and it returned
Measured == ret = "float" /\ raised = ""

\* the sum of area_pix2 over the records whose class is not 'junk'
NonJunkArea(props) ==
    RSumSeq([i \in DOMAIN props |->
                IF props[i].class = "junk" THEN RZero ELSE props[i].area_pix2])

\* C8: the value measure_spots returns is the sum of area_pix2 over all the
\* records whose class is not 'junk'
C8_ReturnIsNonJunkArea ==
    Measured => area_pix = NonJunkArea(vsa_processor.spot_polygon_properties)

\* C8: a measured list holds a junk record and a record that is not junk
C8_Witness ==
    /\ Measured
    /\ \E i, j \in DOMAIN vsa_processor.spot_polygon_properties :
          /\ vsa_processor.spot_polygon_properties[i].class = "junk"
          /\ vsa_processor.spot_polygon_properties[j].class # "junk"
          /\ RLess(RZero, vsa_processor.spot_polygon_properties[j].area_pix2)

Rank(class) == CHOOSE k \in DOMAIN Classes : Classes[k] = class

\* the thresholds are three and in ascending order
Ascending(t) == Len(t) = 3 /\ RLeq(t[1], t[2]) /\ RLeq(t[2], t[3])

\* the band of volume v under ascending thresholds
InBand(v, class, t) ==
    CASE class = "junk" -> RLess(v, t[1])
      [] class = "nano" -> RLeq(t[1], v) /\ RLess(v, t[2])
      [] class = "micro" -> RLeq(t[2], v) /\ RLess(v, t[3])
      [] OTHER -> RLeq(t[3], v)

\* C9: under ascending thresholds every record's class is the band of its
\* volume, and of two records the one of smaller volume never has the higher
\* class (junk < nano < micro < primary)
C9_ClassFollowsVolume ==
    \A c \in calls :
        (Measured /\ Ascending(c[2])) =>
            LET props == vsa_processor.spot_polygon_properties
            IN  /\ \A i \in DOMAIN props :
                      InBand(props[i].volume_ul, props[i].class, c[2])
                /\ \A i, j \in DOMAIN props :
                      RLeq(props[i].volume_ul, props[j].volume_ul) =>
                          Rank(props[i].class) <= Rank(props[j].class)

C12_SegmentPaperFailsCleanly ==
    [][SegmentPaper =>
          /\ raised' = ""
          /\ ret' \in {"True", "False"}
          /\ ret' = "False" =>
                /\ vsa_processor'.paper_mask = vsa_processor.paper_mask
                /\ vsa_processor'.paper_polygon = vsa_processor.paper_polygon
                /\ vsa_processor'.dist_map = vsa_processor.dist_map
          /\ ret' = "True" =>
                /\ vsa_processor'.paper_mask # None
                /\ vsa_processor'.paper_mask # Some({})
                /\ vsa_processor'.paper_polygon # <<>>
                /\ vsa_processor'.dist_map # None]_vars

\* C14: no record of measure_spots holds the quotient sum/count of a polygon
\* that covers no pixel (count = 0)
C14_MeanDistanceGuarded ==
    \A i \in DOMAIN vsa_processor.spot_polygon_properties :
        vsa_processor.spot_polygon_properties[i].ave_dist_to_edge_pix # NaN

\* max_val - min_val of the region roi of img_extended
RoiRange(vp, roi) ==
    LET vals == {vp.img_extended[1][p] : p \in RectPixels(roi)}
    IN  MaxOf(vals) - MinOf(vals)

\* the last call was _find_spots_in_rect: calls holds its arguments and what it
\* returned, and img_extended is the image it read
FoundLast == ret = "tuple"

\* C18: _find_spots_in_rect on a region whose intensity range is below
\* min_range returns no polygons and no mask and leaves roi_mask None and
\* roi_polygons empty, whatever the other two parameters and the median
C18_RangeGateRejects ==
    \A c \in calls :
        (/\ FoundLast
         /\ vsa_processor.img_extended # None
         /\ RectPixels(c[2]) # {}
         /\ RoiRange(vsa_processor, c[2]) < c[3][2]) =>
            /\ raised = ""
            /\ c[4] = <<>>
            /\ c[5] = None
            /\ vsa_processor.roi_mask = None
            /\ vsa_processor.roi_polygons = <<>>

\* a call rejected by the range alone: with min_range = 0 the same call
\* returns a mask
C18_Witness ==
    \E c \in calls :
        /\ FoundLast
        /\ raised = ""
        /\ vsa_processor.roi = c[2]
        /\ vsa_processor.img_extended # None
        /\ RoiRange(vsa_processor, c[2]) < c[3][2]
        /\ c[5] = None
        /\ vsa_processor.roi_mask = None
        /\ _find_spots_in_rect(vsa_processor, c[2], c[3][1], 0,
                               c[3][3]).roi_mask # None

\* C19: get_default_paper_threshold returns -1 without an image, and with one
\* an integer of 0..255 nearest to 0.25 * Otsu + 0.75 * Triangle (either
\* neighbour when the value lies half way)
C19_DefaultIsNearest ==
    \A c \in calls :
        IF ~have_img(vsa_processor) THEN ret = "-1"
        ELSE \E n \in 0..MaxIntensity :
                 /\ ret = ToString(n)
                 /\ Abs(4 * n - (c[2] + 3 * c[3])) <= 2

\* the list started k points later
Rotate(pt_list, k) ==
    SubSeq(pt_list, k + 1, Len(pt_list)) \o SubSeq(pt_list, 1, k)

\* C20: polygon_area of a point list is also the polygon_area of every cyclic
\* rotation of the list and of the reversed list
C20_AreaOfRotationsAndReversal ==
    \A c \in calls :
        /\ \A k \in 0..Len(c[2]) : polygon_area(Rotate(c[2], k)) = area_pix
        /\ polygon_area(Reverse(c[2])) = area_pix

\* a list that ends in its first point again, of an area that is not 0
C20_Witness ==
    \E c \in calls :
        /\ Len(c[2]) = 4
        /\ c[2][1] = c[2][4]
        /\ area_pix # RZero

\* compute_model has been called, with vol_cal_points as its list
Fitting == calls = {<<"compute_model">>}

\* the sums of A^k and of A^k * V over the points
SumA(points, k) == RSumSeq([i \in DOMAIN points |-> RPow(points[i][1], k)])
SumAV(points, k) ==
    RSumSeq([i \in DOMAIN points |->
                RMul(RPow(points[i][1], k), points[i][2])])

\* the least-squares system of a non-empty list has no solution
Singular(points) ==
    /\ points # <<>>
    /\ IF Len(points) <= 3 THEN SumA(points, 2) = RZero
       ELSE RSub(RMul(SumA(points, 3), SumA(points, 3)),
                 RMul(SumA(points, 4), SumA(points, 2))) = RZero

\* C13: compute_model on a singular list neither returns True nor ends in
\* the arithmetic error of the division
C13_SingularFitFailsTyped ==
    (Fitting /\ Singular(vol_cal_points)) =>
        /\ ret # "True"
        /\ raised # "ZeroDivisionError"

\* areas at which map_area is tried
SampleAreas == {RInt(0), RInt(1), Rat(5, 2), RInt(7)}

\* C15: compute_model on the empty list returns False with c1 = c2 = 0, so
\* map_area is 0 everywhere; on a list that is not empty and not singular it
\* returns True
C15_EmptyListResetsModel ==
    Fitting =>
        /\ vol_cal_points = <<>> =>
              /\ ret = "False"
              /\ raised = ""
              /\ volume_mapper = [c1 |-> RZero, c2 |-> RZero]
              /\ \A a \in SampleAreas : map_area(volume_mapper, a) = RZero
        /\ (vol_cal_points # <<>> /\ ~Singular(vol_cal_points)) =>
              /\ ret = "True"
              /\ raised = ""

\* compute_model was called with the empty list
C15_Witness == Fitting /\ vol_cal_points = <<>> /\ ret = "False"

\* C16: for 1 to 3 points with a positive sum of A^2, c2 = 0 and
\* c1 = sum(A*V) / sum(A^2); one point (A, V) gives V/A, and (1, 2) gives 2
C16_LinearFit ==
    (/\ Fitting
     /\ Len(vol_cal_points) \in 1..3
     /\ RLess(RZero, SumA(vol_cal_points, 2))) =>
        /\ volume_mapper.c2 = RZero
        /\ volume_mapper.c1
              = RDiv(SumAV(vol_cal_points, 1), SumA(vol_cal_points, 2))
        /\ Len(vol_cal_points) = 1 =>
              volume_mapper.c1
                = RDiv(vol_cal_points[1][2], vol_cal_points[1][1])
        /\ vol_cal_points = <<<<RInt(1), RInt(2)>>>> =>
              volume_mapper.c1 = RInt(2)

\* the model of the single point (1, 2)
C16_Witness ==
    /\ Fitting
    /\ vol_cal_points = <<<<RInt(1), RInt(2)>>>>
    /\ volume_mapper = [c1 |-> RInt(2), c2 |-> RZero]

\* every point lies on V = a*A^2 + b*A
OnCurve(points, a, b) ==
    \A i \in DOMAIN points :
        points[i][2] = RAdd(RMul(RInt(a), RPow(points[i][1], 2)),
                            RMul(RInt(b), points[i][1]))

\* the points of the curve V = A^2 at the areas 1 to 4
SquaresExample ==
    <<<<RInt(1), RInt(1)>>, <<RInt(2), RInt(4)>>, <<RInt(3), RInt(9)>>,
      <<RInt(4), RInt(16)>>>>

\* C17: for 4 or more points with a determinant that is not 0, (c1, c2)
\* satisfy both normal equations of the quadratic through the origin; points
\* on V = a*A^2 + b*A give c2 = a and c1 = b, the squares example c2 = 1 and
\* c1 = 0
C17_QuadraticFit ==
    (/\ Fitting
     /\ Len(vol_cal_points) >= 4
     /\ ~Singular(vol_cal_points)) =>
        /\ raised = ""
        /\ RAdd(RMul(volume_mapper.c2, SumA(vol_cal_points, 4)),
                RMul(volume_mapper.c1, SumA(vol_cal_points, 3)))
              = SumAV(vol_cal_points, 2)
        /\ RAdd(RMul(volume_mapper.c2, SumA(vol_cal_points, 3)),
                RMul(volume_mapper.c1, SumA(vol_cal_points, 2)))
              = SumAV(vol_cal_points, 1)
        /\ \A a \in 0..1, b \in 0..2 :
              OnCurve(vol_cal_points, a, b) =>
                  /\ volume_mapper.c2 = RInt(a)
                  /\ volume_mapper.c1 = RInt(b)
        /\ vol_cal_points = SquaresExample =>
              volume_mapper = [c1 |-> RZero, c2 |-> RInt(1)]

\* the model of the squares example
C17_Witness ==
    /\ Fitting
    /\ vol_cal_points = SquaresExample
    /\ volume_mapper = [c1 |-> RZero, c2 |-> RInt(1)]

\* the polygon is the axis-aligned square of side s in boundary order
IsSquareOfSide(polygon, s) ==
    \E x \in 0..2, y \in 0..2, k \in 0..3, clockwise \in BOOLEAN :
        polygon = SquareCorners(x, y, s, k, clockwise)

\* C21: for an axis-aligned square of side s given by its four corners,
\* polygon_area is s^2 and polygon_perimeter is 4 * s, so 16 * area is the
\* square of the perimeter and circularity is pi / 4
C21_SquareMeasures ==
    \A c \in calls, s \in 1..MaxSide :
        (c[1] = "circularity" /\ IsSquareOfSide(c[2], s)) =>
            /\ area_pix = RInt(s * s)
            /\ polygon_perimeter(c[2]) = [whole |-> 4 * s, surds |-> <<>>]
            /\ c[3].L = [whole |-> 4 * s, surds |-> <<>>]
            /\ RMul(RInt(16), area_pix) = RInt((4 * s) * (4 * s))
            /\ RDiv(c[3].four_a, RInt(c[3].L.whole * c[3].L.whole)) = Rat(1, 4)

\* the square of side MaxSide was measured
C21_Witness ==
    \E c \in calls :
        /\ c[1] = "circularity"
        /\ IsSquareOfSide(c[2], MaxSide)
        /\ area_pix = RInt(MaxSide * MaxSide)

\* the polygon is a path followed by its reverse
IsOutAndBack(polygon) ==
    /\ Len(polygon) % 2 = 1
    /\ \A i \in DOMAIN polygon : polygon[i] = polygon[Len(polygon) + 1 - i]

\* C22: for an out-and-back polygon polygon_area is 0 and circularity is 0;
\* circularity is 0 whenever the perimeter is 0
C22_OutAndBackIsFlat ==
    \A c \in calls :
        c[1] = "circularity" =>
            /\ IsOutAndBack(c[2]) =>
                  /\ area_pix = RZero
                  /\ c[3].four_a = RZero
            /\ polygon_perimeter(c[2]) = [whole |-> 0, surds |-> <<>>] =>
                  c[3].four_a = RZero

\* an out-and-back path over three different vertices, of perimeter above 0
C22_Witness ==
    \E c \in calls :
        /\ c[1] = "circularity"
        /\ IsOutAndBack(c[2])
        /\ Len(c[2]) = 5
        /\ Cardinality({c[2][i] : i \in DOMAIN c[2]}) = 3
        /\ c[3].four_a = RZero

\* polygon i of the list has a greater area than every other polygon of it
Dominates(polygons, i) ==
    \A j \in DOMAIN polygons :
        j # i => RLess(polygon_area(polygons[j]), polygon_area(polygons[i]))

\* C23: largest_polygon returns -1 for an empty list, an index of the list
\* for a list that is not empty, and the index of the polygon whose area is
\* greater than every other when there is one
C23_LargestIsDominant ==
    \A c \in calls :
        c[1] = "largest_polygon" =>
            /\ c[2] = <<>> => ret = "-1"
            /\ c[2] # <<>> => \E i \in 0..(Len(c[2]) - 1) : ret = ToString(i)
            /\ \A i \in DOMAIN c[2] :
                  Dominates(c[2], i) => ret = ToString(i - 1)

\* the second of three polygons has the greatest area
C23_Witness ==
    \E c \in calls :
        /\ c[1] = "largest_polygon"
        /\ Len(c[2]) = 3
        /\ Dominates(c[2], 2)
        /\ ret = "1"

\* C24: a successful open_image sets image_file and img and resets the rest:
\* paper_mask, dist_map, img_extended and roi_mask None, the four lists
\* empty, spot_mask all zero
C24_OpenImageResets ==
    [][(OpenImage /\ ret' = "True") =>
          /\ vsa_processor'.image_file # ""
          /\ vsa_processor'.img # None
          /\ vsa_processor'.paper_mask = None
          /\ vsa_processor'.dist_map = None
          /\ vsa_processor'.img_extended = None
          /\ vsa_processor'.paper_polygon = <<>>
          /\ vsa_processor'.spot_polygons = <<>>
          /\ vsa_processor'.spot_polygon_properties = <<>>
          /\ vsa_processor'.roi_polygons = <<>>
          /\ vsa_processor'.roi_mask = None
          /\ vsa_processor'.spot_mask = Some({})]_vars

\* C25: with an image loaded and paper_mask None, segment_spots,
\* segment_spots_in_roi and measure_spots return without raising and leave
\* spot_mask as it was
C25_NotReadyIsExplicit ==
    [][(/\ have_img(vsa_processor)
        /\ vsa_processor.paper_mask = None
        /\ SegmentSpots \/ SegmentSpotsInRoi \/ MeasureUncalibrated) =>
          /\ raised' = ""
          /\ vsa_processor'.spot_mask = vsa_processor.spot_mask]_vars

\* the least n with n * b >= a
Ceiling(a, b) == CHOOSE n \in 0..a : n * b >= a /\ (n = 0 \/ (n - 1) * b < a)

\* C26: the tiles of segment_spots partition the image: every pixel lies in
\* exactly one tile, there are ceil(w / win_size) * ceil(h / win_size)
\* tiles, and every tile is 1 to win_size wide and high and inside the image
C26_TilesPartition ==
    \A c \in calls :
        c[1] = "tiles" =>
            LET w == c[2]
                h == c[3]
                win_size == c[4]
                tiles == c[5]
            IN  /\ \A x \in 0..(w - 1), y \in 0..(h - 1) :
                      Cardinality({k \in DOMAIN tiles :
                          /\ tiles[k][1] <= x /\ x < tiles[k][3]
                          /\ tiles[k][2] <= y /\ y < tiles[k][4]}) = 1
                /\ Len(tiles) = Ceiling(w, win_size) * Ceiling(h, win_size)
                /\ \A k \in DOMAIN tiles :
                      /\ (tiles[k][3] - tiles[k][1]) \in 1..win_size
                      /\ (tiles[k][4] - tiles[k][2]) \in 1..win_size
                      /\ 0 <= tiles[k][1] /\ tiles[k][3] <= w
                      /\ 0 <= tiles[k][2] /\ tiles[k][4] <= h

\* six tiles, those of the last column and of the last row cut at the edge
C26_Witness ==
    \E c \in calls :
        /\ c[1] = "tiles"
        /\ <<c[2], c[3], c[4]>> = <<5, 3, 2>>
        /\ Len(c[5]) = 6
        /\ c[5][6] = <<4, 2, 5, 3>>

C30_OnlyFreshCandidateCommits ==
    /\ <<"segmentation", "accepted">> \notin calls =>
          vsa_processor.roi_polygons = <<>>
    /\ \A c \in calls :
          (c[1] = "save_roi_spots" /\ vsa_processor.spot_mask # c[2]) =>
              <<"segmentation", "accepted">> \in calls

\* save_roi_spots after a rejected probe of a segmented image that has
\* spots: the mask is as before
C30_Witness ==
    \E c \in calls :
        /\ c[1] = "save_roi_spots"
        /\ <<"segmentation", "rejected">> \in calls
        /\ vsa_processor.img_extended # None
        /\ vsa_processor.spot_mask = c[2]
        /\ vsa_processor.spot_mask \notin {None, Some({})}

\* C28: after extend_image a pixel of img_extended inside the paper mask is
\* the pixel of img, and a pixel outside is the median of img over all the
\* pixels of the mask, those of value 0 included (as a pixel value)
C28_ExtendedByMaskMedian ==
    calls = {<<"extend_image">>} =>
        LET img == vsa_processor.img[1]
            mask == vsa_processor.paper_mask[1]
            median == Median(SortedValues(img, mask))
        IN  \A p \in Pixels :
                vsa_processor.img_extended[1][p]
                  = IF p \in mask THEN img[p] ELSE Trunc(median)

\* C29: smooth_polygon leaves a polygon of fewer than 5 vertices as it is;
\* for 5 or more it keeps the count and the last vertex, and every other
\* vertex becomes the cut average of itself and its two neighbours as they
\* were before the call (the last vertex before the first)
C29_SmoothedFromOriginal ==
    \A c \in calls :
        c[1] = "smooth_polygon" =>
            LET old == c[2]
                new == c[3]
                n == Len(old)
            IN  IF n < 5 THEN new = old
                ELSE /\ Len(new) = n
                     /\ new[n] = old[n]
                     /\ \A i \in 1..(n - 1) :
                           LET before == old[IF i = 1 THEN n ELSE i - 1]
                           IN  new[i] =
                                 <<ThirdOf(before[1] + old[i][1] + old[i + 1][1]),
                                   ThirdOf(before[2] + old[i][2] + old[i + 1][2])>>

\* C10: the three thresholds of every measure_spots call of a handler are in
\* ascending order
C10_ThresholdsAscend ==
    \A c \in calls : c[1] = "measure_spots" => Ascending(c[2])

\* C9: records of three different classes were measured under ascending
\* thresholds
C9_Witness ==
    \E c \in calls :
        /\ Measured
        /\ Ascending(c[2])
        /\ Cardinality({vsa_processor.spot_polygon_properties[i].class :
               i \in DOMAIN vsa_processor.spot_polygon_properties}) >= 3

====
